---- MODULE Spec2Model ----
(***************************************************************************)
(* Model of the resume field-extraction pipeline of                        *)
(* src/fixed_enhanced_resume_parser.py (class EnhancedResumeParser).       *)
(*                                                                         *)
(* Texts are TLA+ strings over ASCII; every regular expression of the      *)
(* source is written as a pattern (a sequence of items) and run by a       *)
(* backtracking matcher with Python's `re` preference order (leftmost,     *)
(* greedy/lazy, first alternative first), so that the extractors compute   *)
(* what the source computes on the same characters.  The bullet U+2022     *)
(* cannot be written in a TLA+ string; documents use '-' and '*' bullets.  *)
(* Floating-point scores are kept exactly, in hundredths.                  *)
(***************************************************************************)
EXTENDS Integers, Sequences, FiniteSets, TLC

(***************************************************************************)
(* Characters and strings (Python str methods)                             *)
(***************************************************************************)
UpperStr == "ABCDEFGHIJKLMNOPQRSTUVWXYZ"
LowerStr == "abcdefghijklmnopqrstuvwxyz"
DigitStr == "0123456789"

\* the characters of a string, as a set
SetOf(s) == { SubSeq(s, i, i) : i \in 1..Len(s) }

Upper == SetOf(UpperStr)
Lower == SetOf(LowerStr)
Digit == SetOf(DigitStr)
Alpha == Upper \cup Lower
Space == {" ", "\n", "\t", "\r"}
Word  == Alpha \cup Digit \cup {"_"}

\* str.lower() / str.upper() on one character
ToLower == [c \in Upper |-> SubSeq(LowerStr, CHOOSE i \in 1..26 : SubSeq(UpperStr, i, i) = c,
                                             CHOOSE i \in 1..26 : SubSeq(UpperStr, i, i) = c)]
ToUpper == [c \in Lower |-> SubSeq(UpperStr, CHOOSE i \in 1..26 : SubSeq(LowerStr, i, i) = c,
                                             CHOOSE i \in 1..26 : SubSeq(LowerStr, i, i) = c)]
LowerCh(c) == IF c \in Upper THEN ToLower[c] ELSE c
SwapCh(c)  == IF c \in Upper THEN ToLower[c] ELSE IF c \in Lower THEN ToUpper[c] ELSE c

\* the sequence of the characters of a string
Chars(s) == [i \in 1..Len(s) |-> SubSeq(s, i, i)]

RECURSIVE JoinRange(_, _, _)
\* ''.join(cs[lo..hi]) for a sequence of strings (halving keeps the recursion shallow)
JoinRange(cs, lo, hi) ==
    IF lo > hi THEN ""
    ELSE IF lo = hi THEN cs[lo]
    ELSE JoinRange(cs, lo, (lo + hi) \div 2) \o JoinRange(cs, ((lo + hi) \div 2) + 1, hi)
Join(cs) == JoinRange(cs, 1, Len(cs))

\* str.lower()
StrLower(s) == Join([i \in 1..Len(s) |-> LowerCh(SubSeq(s, i, i))])

RECURSIVE LStrip(_)
LStrip(s) == IF s # "" /\ SubSeq(s, 1, 1) \in Space THEN LStrip(SubSeq(s, 2, Len(s))) ELSE s
RECURSIVE RStrip(_)
RStrip(s) == IF s # "" /\ SubSeq(s, Len(s), Len(s)) \in Space THEN RStrip(SubSeq(s, 1, Len(s) - 1)) ELSE s
\* str.strip()
Strip(s) == LStrip(RStrip(s))

\* needle in hay (Python substring test)
Contains(hay, needle) ==
    \E i \in 1..(Len(hay) - Len(needle) + 1) : SubSeq(hay, i, i + Len(needle) - 1) = needle

\* hay.startswith(p)
StartsWith(hay, p) == Len(hay) >= Len(p) /\ SubSeq(hay, 1, Len(p)) = p

\* split s at every single character of seps, keeping empty pieces
\* (str.split(sep) for a one-character sep)
SplitOn(s, seps) ==
    LET cuts == { i \in 1..Len(s) : SubSeq(s, i, i) \in seps }
        \* the positions of the separators around piece k; 0 and Len(s)+1 are the ends
        before(k) == IF k = 1 THEN 0
                     ELSE CHOOSE i \in cuts : Cardinality({ j \in cuts : j < i }) = k - 2
        after(k) == IF k = Cardinality(cuts) + 1 THEN Len(s) + 1
                    ELSE CHOOSE i \in cuts : Cardinality({ j \in cuts : j < i }) = k - 1
    IN  [k \in 1..(Cardinality(cuts) + 1) |-> SubSeq(s, before(k) + 1, after(k) - 1)]

\* text.split('\n')
Lines(s) == SplitOn(s, {"\n"})

\* the pieces that are not empty, in order
NonEmpty(q) ==
    LET keep == { i \in 1..Len(q) : q[i] # "" }
    IN  [k \in 1..Cardinality(keep) |->
            q[CHOOSE i \in keep : Cardinality({ j \in keep : j < i }) = k - 1]]

\* str.split(): split on runs of whitespace, no empty pieces
Words(s) == NonEmpty(SplitOn(s, Space))

\* re.split(r'[seps]+', s): split on runs of separator characters; Python keeps
\* an empty first/last piece when s starts/ends with a separator
ReSplitRuns(s, seps) ==
    LET raw == SplitOn(s, seps)
        n   == Len(raw)
        mid == IF n <= 2 THEN <<>> ELSE NonEmpty(SubSeq(raw, 2, n - 1))
    IN  IF n = 1 THEN raw ELSE <<raw[1]>> \o mid \o <<raw[n]>>

\* seq[:n]
Take(q, n) == SubSeq(q, 1, IF Len(q) < n THEN Len(q) ELSE n)

RECURSIVE JoinWith(_, _)
\* sep.join(seq of strings)
JoinWith(q, sep) == IF q = <<>> THEN ""
                    ELSE IF Len(q) = 1 THEN q[1]
                    ELSE q[1] \o sep \o JoinWith(Tail(q), sep)

(***************************************************************************)
(* Regular expressions (Python `re`)                                       *)
(*                                                                         *)
(* A pattern is a sequence of items.  Python's matcher backtracks: at      *)
(* every choice it takes the first option, in its order of preference      *)
(* (greedy: longest run first; lazy: shortest first; alternation: left to  *)
(* right; a repetition: once more before stopping), from which the rest of *)
(* the pattern can still match.  CanMatch says whether a pattern can match *)
(* from a position; Walk follows the preferred choices and returns the end *)
(* of the match and the groups it captured.                                *)
(***************************************************************************)
Unbounded == 0 - 1

\* one character class with a quantifier {min,max}; neg is [^...]
Q(set, neg, min, max, lazy) ==
    << [t |-> "c", set |-> set, neg |-> neg, min |-> min, max |-> max, lazy |-> lazy] >>
One(set)     == Q(set, FALSE, 1, 1, FALSE)                  \* [set]
Opt(set)     == Q(set, FALSE, 0, 1, FALSE)                  \* [set]?
Star(set)    == Q(set, FALSE, 0, Unbounded, FALSE)          \* [set]*
Plus(set)    == Q(set, FALSE, 1, Unbounded, FALSE)          \* [set]+
Times(set, min, max) == Q(set, FALSE, min, max, FALSE)      \* [set]{min,max}
NotStar(set) == Q(set, TRUE, 0, Unbounded, FALSE)           \* [^set]*
NotPlus(set) == Q(set, TRUE, 1, Unbounded, FALSE)           \* [^set]+
AnyLazyStar  == Q({}, TRUE, 0, Unbounded, TRUE)             \* [\s\S]*?
\* a literal string
Lit(s) == << [t |-> "lit", s |-> s] >>
\* (?:body){min,max}, greedy
Rep(body, min, max) == << [t |-> "rep", body |-> body, min |-> min, max |-> max] >>
Maybe(body) == Rep(body, 0, 1)                              \* (?:body)?
\* (?:a|b|...): alts is a sequence of patterns
Alt(alts) == << [t |-> "alt", alts |-> alts] >>
\* capturing group number k
Grp(k, body) == << [t |-> "open", k |-> k] >> \o body \o << [t |-> "close", k |-> k] >>
Look(body) == << [t |-> "look", body |-> body] >>           \* (?=body)
Bol == << [t |-> "bol"] >>                                  \* ^
Eol == << [t |-> "eol"] >>                                  \* $
Wb  == << [t |-> "wb"] >>                                   \* \b

NoCaps == [k \in 1..3 |-> [s |-> 0, e |-> 0]]
Fail == [ok |-> FALSE, s |-> 0, pos |-> 0, caps |-> NoCaps]

\* does item h accept character c (ic: re.IGNORECASE)
ClassHit(h, c, ic) == (c \in h.set \/ (ic /\ SwapCh(c) \in h.set)) # h.neg

\* how many consecutive characters from position i item h accepts, at most h.max
RunLen(h, T, i, ic) ==
    LET left == Len(T) - i + 1
        limit == IF h.max >= 0 /\ h.max < left THEN h.max ELSE left
    IN  CHOOSE n \in 0..limit :
            /\ n = limit \/ ~ClassHit(h, T[i + n], ic)
            /\ \A m \in 0..(n - 1) : ClassHit(h, T[i + m], ic)

\* does the literal h.s stand at position i
LitAt(h, T, i, ic) ==
    /\ i + Len(h.s) - 1 <= Len(T)
    /\ \A m \in 1..Len(h.s) :
          \/ T[i + m - 1] = SubSeq(h.s, m, m)
          \/ ic /\ SwapCh(T[i + m - 1]) = SubSeq(h.s, m, m)

IsWordAt(T, i) == i >= 1 /\ i <= Len(T) /\ T[i] \in Word

\* a zero-width item holds at position i
Holds(h, T, i) ==
    CASE h.t = "bol" -> i = 1
      [] h.t = "eol" -> i = Len(T) + 1 \/ (i = Len(T) /\ T[i] = "\n")
      [] h.t = "wb"  -> IsWordAt(T, i - 1) # IsWordAt(T, i)
      [] OTHER -> TRUE

\* a repetition after one more turn of its body
Again(h) == << [h EXCEPT !.min = IF h.min > 0 THEN h.min - 1 ELSE 0,
                         !.max = IF h.max < 0 THEN h.max ELSE h.max - 1] >>

RECURSIVE Ends(_, _, _, _, _)
RECURSIVE EndsOfItem(_, _, _, _)
RECURSIVE EndsOfRep(_, _, _, _, _)
\* the positions at which the items of p from the one numbered lo on can end
\* when they start at a position of I
Ends(p, lo, T, I, ic) ==
    CASE I = {} -> I
      [] lo > Len(p) -> I
      [] OTHER -> Ends(p, lo + 1, T, EndsOfItem(p[lo], T, I, ic), ic)

\* the same for one item
EndsOfItem(h, T, I, ic) ==
    CASE h.t = "c" ->
            UNION { { i + n : n \in h.min..RunLen(h, T, i, ic) } : i \in I }
      [] h.t = "lit" -> { i + Len(h.s) : i \in { j \in I : LitAt(h, T, j, ic) } }
      [] h.t = "rep" -> EndsOfRep(h, T, I, ic, 0)
      [] h.t = "alt" -> UNION { Ends(h.alts[a], 1, T, I, ic) : a \in 1..Len(h.alts) }
      [] h.t = "look" -> { i \in I : Ends(h.body, 1, T, {i}, ic) # {} }
      [] OTHER -> { i \in I : Holds(h, T, i) }

\* the same for a repetition of which k turns have led to the positions I
EndsOfRep(h, T, I, ic, k) ==
    IF I = {} THEN {}
    ELSE (IF k >= h.min THEN I ELSE {})
         \cup (IF k = h.max THEN {}
               ELSE EndsOfRep(h, T, Ends(h.body, 1, T, I, ic), ic, k + 1))

\* can pattern p match the characters T from position i on
CanMatch(p, T, i, ic) == Ends(p, 1, T, {i}, ic) # {}

\* the count a quantified class takes out of a run: the largest (greedy) or
\* the smallest (lazy) after which the rest can match
TakeUpTo(h, rest, T, i, ic, run) ==
    CHOOSE n \in h.min..run :
        /\ CanMatch(rest, T, i + n, ic)
        /\ \A m \in (IF h.lazy THEN h.min..(n - 1) ELSE (n + 1)..run) :
              ~CanMatch(rest, T, i + m, ic)

TakeCount(h, rest, T, i, ic) == TakeUpTo(h, rest, T, i, ic, RunLen(h, T, i, ic))

\* the alternative an alternation takes: the first that lets the rest match
TakeAlt(h, rest, T, i, ic) ==
    CHOOSE a \in 1..Len(h.alts) :
        /\ CanMatch(h.alts[a] \o rest, T, i, ic)
        /\ \A b \in 1..(a - 1) : ~CanMatch(h.alts[b] \o rest, T, i, ic)

\* the walk w = [p, pos, caps] (the items still to match, the position, the
\* groups) after its first item h, given that p can match at pos
WalkItem(h, rest, w, T, ic) ==
    CASE h.t = "c" ->
            [w EXCEPT !.p = rest, !.pos = @ + TakeCount(h, rest, T, w.pos, ic)]
      [] h.t = "lit" -> [w EXCEPT !.p = rest, !.pos = @ + Len(h.s)]
      [] h.t = "rep" ->
            [w EXCEPT !.p = IF h.max # 0 /\ CanMatch(h.body \o Again(h) \o rest, T, w.pos, ic)
                            THEN h.body \o Again(h) \o rest
                            ELSE rest]
      [] h.t = "alt" -> [w EXCEPT !.p = h.alts[TakeAlt(h, rest, T, w.pos, ic)] \o rest]
      [] h.t = "open" -> [w EXCEPT !.p = rest, !.caps[h.k].s = w.pos]
      [] h.t = "close" -> [w EXCEPT !.p = rest, !.caps[h.k].e = w.pos]
      [] OTHER -> [w EXCEPT !.p = rest]

RECURSIVE WalkOn(_, _, _)
\* the walk at its end: one item after the other
WalkOn(w, T, ic) ==
    IF w.p = <<>> THEN w ELSE WalkOn(WalkItem(w.p[1], Tail(w.p), w, T, ic), T, ic)

\* the match of p from position i, given CanMatch(p, T, i, ic): [pos, caps]
Walk(p, T, i, caps, ic) == WalkOn([p |-> p, pos |-> i, caps |-> caps], T, ic)

\* the positions at which a match of p can start
Starts(p, T, ic) == { i \in 1..(Len(T) + 1) : CanMatch(p, T, i, ic) }

\* the match that starts at s, as walked: [ok, s, pos, caps]
Matched(s, w) == [ok |-> TRUE, s |-> s, pos |-> w.pos, caps |-> w.caps]
MatchAt(p, T, ic, s) == Matched(s, Walk(p, T, s, NoCaps, ic))

\* the least element of S that is at least from
LeastFrom(S, from) == CHOOSE i \in S : i >= from /\ \A j \in S : j >= from => i <= j

\* re.search from position from on: the leftmost match, given the starts S
SearchIn(p, T, ic, S, from) ==
    IF \E i \in S : i >= from THEN MatchAt(p, T, ic, LeastFrom(S, from)) ELSE Fail

\* re.search(p, s, flags)
Search(p, s, ic) == SearchIn(p, Chars(s), ic, Starts(p, Chars(s), ic), 1)

\* match.group(0) and match.group(k); an unset group is None
Group0(s, m) == SubSeq(s, m.s, m.pos - 1)
GroupSet(m, k) == m.caps[k].e > 0
GroupK(s, m, k) == SubSeq(s, m.caps[k].s, m.caps[k].e - 1)

RECURSIVE FindAllFrom(_, _, _, _, _, _)
RECURSIVE FindAllAfter(_, _, _, _, _, _)
\* re.findall for a pattern that has the single group 1 (k = 1) or no group
\* (k = 0): the non-overlapping matches, left to right. A match is listed as
\* its group 1 or as the whole match; the scan goes on past the match, or one
\* further when the match is empty
FindAllFrom(p, s, T, S, from, ick) ==
    IF \E i \in S : i >= from
    THEN FindAllAfter(p, s, T, S, MatchAt(p, T, ick.ic, LeastFrom(S, from)), ick)
    ELSE <<>>
FindAllAfter(p, s, T, S, m, ick) ==
    << IF ick.k = 0 THEN Group0(s, m) ELSE GroupK(s, m, ick.k) >>
    \o FindAllFrom(p, s, T, S, IF m.pos > m.s THEN m.pos ELSE m.pos + 1, ick)
FindAll(p, s, ic, k) ==
    FindAllFrom(p, s, Chars(s), Starts(p, Chars(s), ic), 1, [ic |-> ic, k |-> k])

(***************************************************************************)
(* Optional values: None is the empty sequence, a present value v is <<v>> *)
(***************************************************************************)
None == <<>>
Some(v) == <<v>>
IsSome(x) == x # <<>>
Val(x) == x[1]
\* the first result when there is one, the alternative otherwise
OrElse(r, alt) == IF IsSome(r) THEN r ELSE alt

Alnum == Alpha \cup Digit

\* str.isupper() of one character; str.islower() of a string: some cased
\* character, and no upper-case one
IsLowerStr(s) == /\ \E i \in 1..Len(s) : SubSeq(s, i, i) \in Lower
                 /\ \A i \in 1..Len(s) : SubSeq(s, i, i) \notin Upper

(***************************************************************************)
(* _extract_name                                                           *)
(***************************************************************************)
NameScanLines == 10
NameMinLen == 3
NameMaxLen == 50

name_patterns == <<
    \* ^\s*([A-Z][a-z]+(?:\s+[A-Z][a-z']+){1,2})\s*$
    Bol \o Star(Space)
        \o Grp(1, One(Upper) \o Plus(Lower)
                  \o Rep(Plus(Space) \o One(Upper) \o Plus(Lower \cup {"'"}), 1, 2))
        \o Star(Space) \o Eol,
    \* Name:\s*([A-Z][a-z]+(?:\s+[A-Z][a-z']+){0,2})
    Lit("Name:") \o Star(Space)
        \o Grp(1, One(Upper) \o Plus(Lower)
                  \o Rep(Plus(Space) \o One(Upper) \o Plus(Lower \cup {"'"}), 0, 2)),
    \* ^\s*([A-Z][a-z]+(?:\s+[A-Z]\.?\s*[A-Z][a-z]+))\s*$
    Bol \o Star(Space)
        \o Grp(1, One(Upper) \o Plus(Lower)
                  \o Plus(Space) \o One(Upper) \o Opt({"."}) \o Star(Space)
                  \o One(Upper) \o Plus(Lower))
        \o Star(Space) \o Eol >>

skip_words == <<"resume", "cv", "curriculum", "vitae", "professional", "summary", "objective">>

\* the validation of a matched name: 1 to 3 words, each word of more than one
\* character capital-initial with a lower-case rest
LooksLikeName(potential_name) ==
    LET words == Words(potential_name)
    IN  /\ 1 <= Len(words) /\ Len(words) <= 3
        /\ \A k \in 1..Len(words) :
              Len(words[k]) > 1 =>
                 /\ SubSeq(words[k], 1, 1) \in Upper
                 /\ IsLowerStr(SubSeq(words[k], 2, Len(words[k])))

\* if match: potential_name = match.group(1).strip(), returned when it
\* passes the checks
NameOfMatch(line, m) ==
    IF m.ok /\ LooksLikeName(Strip(GroupK(line, m, 1)))
    THEN Some(Strip(GroupK(line, m, 1))) ELSE None

RECURSIVE NameByPatterns(_, _)
\* the inner loop over name_patterns on one stripped line, from pattern k on
NameByPatterns(line, k) ==
    IF k > Len(name_patterns) THEN None
    ELSE OrElse(NameOfMatch(line, Search(name_patterns[k], line, FALSE)),
                NameByPatterns(line, k + 1))

\* the body of the loop over the lines, for one line
NameFromLine(raw) ==
    LET line == Strip(raw)
        low == StrLower(line)
    IN  IF Len(line) < NameMinLen \/ Len(line) > NameMaxLen THEN None
        ELSE IF \E k \in 1..Len(skip_words) : Contains(low, skip_words[k]) THEN None
        ELSE NameByPatterns(line, 1)

RECURSIVE FirstName(_)
FirstName(lines) ==
    IF lines = <<>> THEN None
    ELSE OrElse(NameFromLine(Head(lines)), FirstName(Tail(lines)))

\* an extraction that scans every line of the text
_extract_name_all_lines(text) == FirstName(Lines(text))

_extract_name(text) == FirstName(Take(Lines(text), NameScanLines))

(***************************************************************************)
(* _extract_email                                                          *)
(***************************************************************************)
\* \b[A-Za-z0-9._%+-]+@[A-Za-z0-9.-]+\.[A-Z|a-z]{2,}\b
email_pattern ==
    Wb \o Plus(Alnum \cup {".", "_", "%", "+", "-"}) \o One({"@"})
       \o Plus(Alnum \cup {".", "-"}) \o One({"."})
       \o Times(Alpha \cup {"|"}, 2, Unbounded) \o Wb

email_denylist == <<"example.com", "test.com", "placeholder">>

RECURSIVE Filter_valid_emails(_)
Filter_valid_emails(matches) ==
    IF matches = <<>> THEN <<>>
    ELSE LET email_lower == StrLower(Head(matches))
         IN  (IF \E k \in 1..Len(email_denylist) : Contains(email_lower, email_denylist[k])
              THEN <<>> ELSE <<Head(matches)>>)
             \o Filter_valid_emails(Tail(matches))

\* valid_emails[0].lower() if valid_emails else None
FirstLower(valid_emails) ==
    IF valid_emails # <<>> THEN Some(StrLower(valid_emails[1])) ELSE None

_extract_email(text) == FirstLower(Filter_valid_emails(FindAll(email_pattern, text, FALSE, 0)))

(***************************************************************************)
(* _extract_phone                                                          *)
(***************************************************************************)
PhoneMinDigits == 10
PhoneMaxDigits == 15

PhoneChars == Digit \cup Space \cup {"-", "(", ")", "+", "."}

\* each entry: the pattern and the group re.findall returns (0: whole match)
phone_patterns == <<
    \* \+?\d{1,3}[-\s]?\(?\d{3}\)?[-\s]?\d{3}[-\s]?\d{4}
    [k |-> 0, p |-> Opt({"+"}) \o Times(Digit, 1, 3) \o Opt({"-"} \cup Space) \o Opt({"("})
                    \o Times(Digit, 3, 3) \o Opt({")"}) \o Opt({"-"} \cup Space)
                    \o Times(Digit, 3, 3) \o Opt({"-"} \cup Space) \o Times(Digit, 4, 4)],
    \* \(?\d{3}\)?[-\.\s]?\d{3}[-\.\s]?\d{4}
    [k |-> 0, p |-> Opt({"("}) \o Times(Digit, 3, 3) \o Opt({")"}) \o Opt({"-", "."} \cup Space)
                    \o Times(Digit, 3, 3) \o Opt({"-", "."} \cup Space) \o Times(Digit, 4, 4)],
    \* Phone:?\s*([\d\s\-\(\)\+\.]+)
    [k |-> 1, p |-> Lit("Phone") \o Opt({":"}) \o Star(Space) \o Grp(1, Plus(PhoneChars))],
    \* Mobile:?\s*([\d\s\-\(\)\+\.]+)
    [k |-> 1, p |-> Lit("Mobile") \o Opt({":"}) \o Star(Space) \o Grp(1, Plus(PhoneChars))],
    \* Tel:?\s*([\d\s\-\(\)\+\.]+)
    [k |-> 1, p |-> Lit("Tel") \o Opt({":"}) \o Star(Space) \o Grp(1, Plus(PhoneChars))] >>

RECURSIVE KeepChars(_, _)
\* re.sub(r'[^set]', '', s)
KeepChars(s, set) ==
    IF s = "" THEN ""
    ELSE (IF SubSeq(s, 1, 1) \in set THEN SubSeq(s, 1, 1) ELSE "")
         \o KeepChars(SubSeq(s, 2, Len(s)), set)

RECURSIVE FirstValidPhone(_)
\* the loop over the matches of one pattern
FirstValidPhone(matches) ==
    IF matches = <<>> THEN None
    ELSE LET phone == KeepChars(Head(matches), Digit \cup {"+"})
         IN  IF PhoneMinDigits <= Len(phone) /\ Len(phone) <= PhoneMaxDigits
             THEN Some(Strip(Head(matches)))
             ELSE FirstValidPhone(Tail(matches))

RECURSIVE PhoneByPatterns(_, _)
PhoneByPatterns(text, k) ==
    IF k > Len(phone_patterns) THEN None
    ELSE OrElse(FirstValidPhone(FindAll(phone_patterns[k].p, text, TRUE, phone_patterns[k].k)),
                PhoneByPatterns(text, k + 1))

_extract_phone(text) == PhoneByPatterns(text, 1)

(***************************************************************************)
(* The skill taxonomy built by __init__ and _extract_skills                *)
(***************************************************************************)
skill_taxonomy == <<
    <<"Python", "Java", "JavaScript", "C++", "C#", "Ruby", "PHP", "Go", "Rust",
      "TypeScript", "Swift", "Kotlin", "Scala", "R", "MATLAB", "Perl", "C",
      "Objective-C", "Dart", "Julia", "F#", "Haskell">>,
    <<"HTML", "CSS", "React", "Angular", "Vue.js", "Node.js", "Express.js",
      "Django", "Flask", "Spring Boot", "ASP.NET", "Laravel", "Ruby on Rails",
      "Next.js", "Nuxt.js", "Svelte", "Bootstrap", "Tailwind CSS">>,
    <<"MySQL", "PostgreSQL", "MongoDB", "Redis", "Cassandra", "DynamoDB",
      "Oracle", "SQL Server", "SQLite", "Elasticsearch", "MariaDB",
      "CouchDB", "InfluxDB">>,
    <<"AWS", "Azure", "Google Cloud", "GCP", "Heroku", "DigitalOcean",
      "Linode", "Vercel", "Netlify", "Firebase">>,
    <<"Docker", "Kubernetes", "Jenkins", "GitLab CI", "Travis CI", "CircleCI",
      "Terraform", "Ansible", "Puppet", "Chef", "Vagrant", "Prometheus",
      "Grafana">>,
    <<"Git", "GitHub", "GitLab", "Bitbucket", "SVN", "Mercurial">>,
    <<"Communication", "Leadership", "Problem Solving", "Teamwork", "Agile",
      "Scrum", "Project Management", "Time Management", "Critical Thinking",
      "Collaboration", "Adaptability">>,
    <<"TensorFlow", "PyTorch", "Keras", "Pandas", "NumPy", "Scikit-learn",
      "OpenCV", "Matplotlib", "Seaborn", "Plotly">> >>

RECURSIVE Flatten(_)
Flatten(qq) == IF qq = <<>> THEN <<>> ELSE Head(qq) \o Flatten(Tail(qq))

\* self.all_skills: the categories flattened, in order
all_skills == Flatten(skill_taxonomy)

\* skill.lower() for every entry of all_skills
all_skills_lower == [k \in 1..Len(all_skills) |-> StrLower(all_skills[k])]

SkillCandidateMaxLen == 30
EntityMaxLen == 30

\* re.search(r'\b' + re.escape(lit) + r'\b', s): lit occurs in s with a word
\* boundary (a word character on exactly one side) at both of its ends
SearchWholeWord(lit, s, T) ==
    \E i \in 1..(Len(s) - Len(lit) + 1) :
        /\ SubSeq(s, i, i + Len(lit) - 1) = lit
        /\ IsWordAt(T, i - 1) # IsWordAt(T, i)
        /\ IsWordAt(T, i + Len(lit) - 1) # IsWordAt(T, i + Len(lit))

\* the direct matching loop over all_skills on text_lower
DirectSkills(text) ==
    LET text_lower == StrLower(text)
        T == Chars(text_lower)
    IN  { all_skills[k] : k \in { j \in 1..Len(all_skills) :
              SearchWholeWord(all_skills_lower[j], text_lower, T) } }

\* (?:technical\s+skills?|skills?|technologies?|competencies?)\s*:?\s*([\s\S]*?)(?=\n\s*\n|\n[A-Z]|$)
skills_section_pattern ==
    Alt(<< Lit("technical") \o Plus(Space) \o Lit("skill") \o Opt({"s"}),
           Lit("skill") \o Opt({"s"}),
           Lit("technologie") \o Opt({"s"}),
           Lit("competencie") \o Opt({"s"}) >>)
    \o Star(Space) \o Opt({":"}) \o Star(Space)
    \o Grp(1, AnyLazyStar)
    \o Look(Alt(<< One({"\n"}) \o Star(Space) \o One({"\n"}),
                   One({"\n"}) \o One(Upper),
                   Eol >>))

\* the delimiters of re.split(r'[,;|<bullet>\n\-]+', skills_text)
SkillDelims == {",", ";", "|", "\n", "-"}

\* a section loop that adds the candidate itself when it names a skill
SkillsOfCandidate_raw(raw) ==
    LET candidate == Strip(raw)
        low == StrLower(candidate)
    IN  IF candidate # "" /\ Len(candidate) <= SkillCandidateMaxLen
           /\ \E j \in 1..Len(all_skills) : Contains(low, all_skills_lower[j])
        THEN {candidate}
        ELSE {}

\* the skills the section loop adds for one candidate
SkillsOfCandidate(raw) ==
    LET candidate == Strip(raw)
        low == StrLower(candidate)
    IN  IF candidate # "" /\ Len(candidate) <= SkillCandidateMaxLen
        THEN { all_skills[k] : k \in { j \in 1..Len(all_skills) : Contains(low, all_skills_lower[j]) } }
        ELSE {}

\* the loop over skill_candidates
SkillsOfCandidates(skill_candidates) ==
    UNION { SkillsOfCandidate(skill_candidates[k]) : k \in 1..Len(skill_candidates) }

\* if skills_section_match: skill_candidates = re.split(r'[,;|\n]+', skills_text)
SkillsOfSection(text, m) ==
    IF m.ok THEN SkillsOfCandidates(ReSplitRuns(GroupK(text, m, 1), SkillDelims)) ELSE {}

SectionSkills(text) == SkillsOfSection(text, Search(skills_section_pattern, text, TRUE))

\* the entity loop over doc.ents; ents is what self.nlp(text) annotated
EntitySkills(ents) ==
    { all_skills[k] : k \in { j \in 1..Len(all_skills) :
          \E e \in ents : /\ e.label_ \in {"ORG", "PRODUCT"}
                          /\ Len(e.text) < EntityMaxLen
                          /\ all_skills_lower[j] = StrLower(e.text) } }

\* an entity loop whose skills take the place of those found before it
WithEntitySkills_only(found_skills, nlp, spacy, annot) ==
    IF nlp # "None" /\ spacy /\ ~annot.raises
    THEN EntitySkills(annot.ents)
    ELSE found_skills

\* _extract_skills: nlp is self.nlp, spacy is SPACY_AVAILABLE, annot is the
\* behaviour of self.nlp(text): it raises, or yields the entities annot.ents.
\* The result is found_skills; the source returns its sorted list.
WithEntitySkills(found_skills, nlp, spacy, annot) ==
    IF nlp # "None" /\ spacy /\ ~annot.raises
    THEN found_skills \cup EntitySkills(annot.ents)
    ELSE found_skills

_extract_skills(text, nlp, spacy, annot) ==
    WithEntitySkills(DirectSkills(text) \cup SectionSkills(text), nlp, spacy, annot)

(***************************************************************************)
(* _extract_experience and _calculate_experience_from_dates                *)
(***************************************************************************)
RECURSIVE ParseInt(_, _)
\* int(digits), acc the value read so far
ParseInt(s, acc) ==
    IF s = "" THEN acc
    ELSE ParseInt(SubSeq(s, 2, Len(s)),
                  acc * 10 + ((CHOOSE i \in 1..10 : SubSeq(DigitStr, i, i) = SubSeq(s, 1, 1)) - 1))

RECURSIVE IntToStr(_)
\* str(n) for n >= 0
IntToStr(n) == IF n < 10 THEN SubSeq(DigitStr, n + 1, n + 1)
               ELSE IntToStr(n \div 10) \o SubSeq(DigitStr, (n % 10) + 1, (n % 10) + 1)

\* f"{n}+ years"
YearsText(n) == IntToStr(n) \o "+ years"

exp_patterns == <<
    \* (\d+)\+?\s*years?\s+(?:of\s+)?experience
    Grp(1, Plus(Digit)) \o Opt({"+"}) \o Star(Space) \o Lit("year") \o Opt({"s"}) \o Plus(Space)
        \o Maybe(Lit("of") \o Plus(Space)) \o Lit("experience"),
    \* experience:?\s*(\d+)\+?\s*years?
    Lit("experience") \o Opt({":"}) \o Star(Space) \o Grp(1, Plus(Digit)) \o Opt({"+"})
        \o Star(Space) \o Lit("year") \o Opt({"s"}),
    \* (\d+)\+?\s*yrs?\s+(?:of\s+)?experience
    Grp(1, Plus(Digit)) \o Opt({"+"}) \o Star(Space) \o Lit("yr") \o Opt({"s"}) \o Plus(Space)
        \o Maybe(Lit("of") \o Plus(Space)) \o Lit("experience"),
    \* over\s+(\d+)\s+years?
    Lit("over") \o Plus(Space) \o Grp(1, Plus(Digit)) \o Plus(Space) \o Lit("year") \o Opt({"s"}),
    \* more\s+than\s+(\d+)\s+years?
    Lit("more") \o Plus(Space) \o Lit("than") \o Plus(Space) \o Grp(1, Plus(Digit))
        \o Plus(Space) \o Lit("year") \o Opt({"s"}) >>

\* \b(19\d{2}|20[0-3]\d)\b
year_pattern ==
    Wb \o Grp(1, Alt(<< Lit("19") \o Times(Digit, 2, 2),
                        Lit("20") \o One({"0", "1", "2", "3"}) \o One(Digit) >>)) \o Wb

MinYearMentions == 2
MaxExperienceYears == 50

RECURSIVE MinOf(_)
MinOf(q) == IF Len(q) = 1 THEN q[1]
            ELSE LET m == MinOf(Tail(q)) IN IF q[1] < m THEN q[1] ELSE m
RECURSIVE MaxOf(_)
MaxOf(q) == IF Len(q) = 1 THEN q[1]
            ELSE LET m == MaxOf(Tail(q)) IN IF q[1] > m THEN q[1] ELSE m

\* if 0 < experience_years <= 50: return f"{experience_years}+ years"
SpanText(experience_years) ==
    IF 0 < experience_years /\ experience_years <= MaxExperienceYears
    THEN Some(YearsText(experience_years))
    ELSE None

\* start_year = min(year_ints); end_year = min(max(year_ints), current_year)
SpanOfInts(year_ints, current_year) ==
    SpanText((IF MaxOf(year_ints) < current_year THEN MaxOf(year_ints) ELSE current_year)
             - MinOf(year_ints))

\* if len(years) >= 2: year_ints = [int(year) for year in years]
SpanOfYears(years, current_year) ==
    IF Len(years) >= MinYearMentions
    THEN SpanOfInts([k \in 1..Len(years) |-> ParseInt(years[k], 0)], current_year)
    ELSE None

\* current_year is datetime.now().year
_calculate_experience_from_dates(text, current_year) ==
    SpanOfYears(FindAll(year_pattern, text, FALSE, 1), current_year)

\* if match: years = int(match.group(1)); return f"{years} years"
YearsOfMatch(text, m) ==
    IF m.ok THEN Some(YearsText(ParseInt(GroupK(text, m, 1), 0))) ELSE None

RECURSIVE ExperienceByPatterns(_, _)
ExperienceByPatterns(text, k) ==
    IF k > Len(exp_patterns) THEN None
    ELSE OrElse(YearsOfMatch(text, Search(exp_patterns[k], text, TRUE)),
                ExperienceByPatterns(text, k + 1))

\* an extraction that asks the dates first and the phrases after them
_extract_experience_dates_first(text, current_year) ==
    OrElse(_calculate_experience_from_dates(text, current_year), ExperienceByPatterns(text, 1))

_extract_experience(text, current_year) ==
    OrElse(ExperienceByPatterns(text, 1), _calculate_experience_from_dates(text, current_year))

(***************************************************************************)
(* _extract_education                                                      *)
(***************************************************************************)
WordOrSpace == Word \cup Space
\* (?:\s+of\s+[\w\s]+)?
OfClause == Maybe(Plus(Space) \o Lit("of") \o Plus(Space) \o Plus(WordOrSpace))
\* (?:\s+[\w\s]+)?
FieldClause == Maybe(Plus(Space) \o Plus(WordOrSpace))

education_patterns == <<
    \* (Bachelor[\s\']?s?(?:\s+of\s+[\w\s]+)?|B\.?[AS]\.?(?:\s+[\w\s]+)?)
    Grp(1, Alt(<< Lit("Bachelor") \o Opt(Space \cup {"'"}) \o Opt({"s"}) \o OfClause,
                  Lit("B") \o Opt({"."}) \o One({"A", "S"}) \o Opt({"."}) \o FieldClause >>)),
    \* (Master[\s\']?s?(?:\s+of\s+[\w\s]+)?|M\.?[AS]\.?(?:\s+[\w\s]+)?)
    Grp(1, Alt(<< Lit("Master") \o Opt(Space \cup {"'"}) \o Opt({"s"}) \o OfClause,
                  Lit("M") \o Opt({"."}) \o One({"A", "S"}) \o Opt({"."}) \o FieldClause >>)),
    \* (PhD|Ph\.?D\.?|Doctor(?:ate)?(?:\s+of\s+[\w\s]+)?)
    Grp(1, Alt(<< Lit("PhD"),
                  Lit("Ph") \o Opt({"."}) \o Lit("D") \o Opt({"."}),
                  Lit("Doctor") \o Maybe(Lit("ate")) \o OfClause >>)),
    \* (Associate[\s\']?s?(?:\s+[\w\s]+)?)
    Grp(1, Lit("Associate") \o Opt(Space \cup {"'"}) \o Opt({"s"}) \o FieldClause),
    \* (Certificate(?:\s+[\w\s]+)?)
    Grp(1, Lit("Certificate") \o FieldClause),
    \* (Diploma(?:\s+[\w\s]+)?)
    Grp(1, Lit("Diploma") \o FieldClause) >>

\* (\b(?:University|College|Institute|School)(?:\s+of\s+[\w\s]+)?)\b
university_pattern ==
    Grp(1, Wb \o Alt(<< Lit("University"), Lit("College"), Lit("Institute"), Lit("School") >>)
              \o OfClause) \o Wb

MaxUniversities == 2
MaxEducationItems == 3

RECURSIVE DegreeMatches(_, _)
\* the loop over education_patterns: the matches of each pattern, in pattern order
DegreeMatches(text, k) ==
    IF k > Len(education_patterns) THEN <<>>
    ELSE FindAll(education_patterns[k], text, TRUE, 1) \o DegreeMatches(text, k + 1)

\* education_info with every institution match, not the first two
education_info_all(text) ==
    DegreeMatches(text, 1) \o FindAll(university_pattern, text, TRUE, 1)

\* education_info before the final cut
education_info(text) ==
    DegreeMatches(text, 1) \o Take(FindAll(university_pattern, text, TRUE, 1), MaxUniversities)

\* '; '.join(education_info[:3]) if education_info else None
JoinedEducation(info) ==
    IF info # <<>> THEN Some(JoinWith(Take(info, MaxEducationItems), "; ")) ELSE None

_extract_education(text) == JoinedEducation(education_info(text))

(***************************************************************************)
(* _extract_work_history                                                   *)
(***************************************************************************)
\* (?:professional\s+experience|work\s+experience|experience|employment)\s*:?\s*([\s\S]*?)
\*     (?=\n\s*(?:education|skills|projects|certifications)|$)
experience_section_pattern ==
    Alt(<< Lit("professional") \o Plus(Space) \o Lit("experience"),
           Lit("work") \o Plus(Space) \o Lit("experience"),
           Lit("experience"),
           Lit("employment") >>)
    \o Star(Space) \o Opt({":"}) \o Star(Space)
    \o Grp(1, AnyLazyStar)
    \o Look(Alt(<< One({"\n"}) \o Star(Space)
                      \o Alt(<< Lit("education"), Lit("skills"), Lit("projects"),
                                Lit("certifications") >>),
                   Eol >>))

\* (\d{4}\s*-\s*\d{4}|\d{4}\s*-\s*Present)?   as group 3
DatesGroup ==
    Maybe(Grp(3, Alt(<< Times(Digit, 4, 4) \o Star(Space) \o One({"-"}) \o Star(Space)
                           \o Times(Digit, 4, 4),
                        Times(Digit, 4, 4) \o Star(Space) \o One({"-"}) \o Star(Space)
                           \o Lit("Present") >>)))

job_patterns == <<
    \* ^([^|]+)\|\s*([^|]+)\|?\s*(dates)?          Title | Company | Dates
    Bol \o Grp(1, NotPlus({"|"})) \o One({"|"}) \o Star(Space) \o Grp(2, NotPlus({"|"}))
        \o Opt({"|"}) \o Star(Space) \o DatesGroup,
    \* ^([^,]+),\s*([^,]+)\s*(dates)?              Title, Company Dates
    Bol \o Grp(1, NotPlus({","})) \o One({","}) \o Star(Space) \o Grp(2, NotPlus({","}))
        \o Star(Space) \o DatesGroup,
    \* ^((?:[A-Z][a-z]*\s*)+)\s*(?:at|@)\s*([^\d]*)(dates)?    Title at Company Dates
    Bol \o Grp(1, Rep(One(Upper) \o Star(Lower) \o Star(Space), 1, Unbounded))
        \o Star(Space) \o Alt(<< Lit("at"), Lit("@") >>) \o Star(Space)
        \o Grp(2, NotStar(Digit)) \o DatesGroup >>

MaxCollectedLines == 5
MaxDescriptionLines == 3
MinNarrativeLen == 20
MaxWorkHistory == 5

\* if match: current_job = {'title': ..., 'company': ..., 'dates': ...}
JobOfMatch(line, m) ==
    IF m.ok
    THEN Some([title |-> Strip(GroupK(line, m, 1)),
               company |-> Strip(GroupK(line, m, 2)),
               dates |-> IF GroupSet(m, 3) /\ GroupK(line, m, 3) # ""
                         THEN Strip(GroupK(line, m, 3)) ELSE ""])
    ELSE None

RECURSIVE JobByPatterns(_, _)
\* the loop over job_patterns on one line: the new job of the first pattern
\* that matches, or None (job_matched stays False)
JobByPatterns(line, k) ==
    IF k > Len(job_patterns) THEN None
    ELSE OrElse(JobOfMatch(line, Search(job_patterns[k], line, FALSE)),
                JobByPatterns(line, k + 1))

\* current_job with its description attached when description_lines is not
\* empty: what work_history.append receives
Closed(current_job, description_lines) ==
    IF description_lines # <<>>
    THEN [title |-> current_job.title, company |-> current_job.company,
          dates |-> current_job.dates,
          description |-> Take(description_lines, MaxDescriptionLines)]
    ELSE current_job

\* the state of the scan before the first line; seen counts the lines the
\* for loop has consumed
ScanStart == [seen |-> 0, work_history |-> <<>>, current_job |-> None,
              description_lines |-> <<>>]

\* a loop that keeps the collected description lines when a new job starts
ScanJob_keeping(st, line, job) ==
    IF IsSome(job)
    THEN IF IsSome(st.current_job)
         THEN [seen |-> st.seen,
               work_history |-> Append(st.work_history,
                                       Closed(Val(st.current_job), st.description_lines)),
               current_job |-> job,
               description_lines |-> st.description_lines]
         ELSE [st EXCEPT !.current_job = job]
    ELSE IF IsSome(st.current_job) /\ Len(st.description_lines) < MaxCollectedLines
    THEN IF StartsWith(line, "-") \/ StartsWith(line, "*")
         THEN [st EXCEPT !.description_lines =
                            Append(@, Strip(SubSeq(line, 2, Len(line))))]
         ELSE IF Len(line) > MinNarrativeLen
         THEN [st EXCEPT !.description_lines = Append(@, line)]
         ELSE st
    ELSE st

\* one turn of the loop over the lines of the section, for a line that is not
\* empty and the job the patterns found in it; st holds work_history,
\* current_job (None for the empty dict) and description_lines
ScanJob(st, line, job) ==
    IF IsSome(job)
    THEN IF IsSome(st.current_job)
         THEN [seen |-> st.seen,
               work_history |-> Append(st.work_history,
                                       Closed(Val(st.current_job), st.description_lines)),
               current_job |-> job,
               description_lines |-> <<>>]
         ELSE [st EXCEPT !.current_job = job]
    ELSE IF IsSome(st.current_job) /\ Len(st.description_lines) < MaxCollectedLines
    THEN IF StartsWith(line, "-") \/ StartsWith(line, "*")
         THEN [st EXCEPT !.description_lines =
                            Append(@, Strip(SubSeq(line, 2, Len(line))))]
         ELSE IF Len(line) > MinNarrativeLen
         THEN [st EXCEPT !.description_lines = Append(@, line)]
         ELSE st
    ELSE st

\* line = line.strip(); if not line: continue; then the loop moves on
ScanStripped(st, line) ==
    [(IF line = "" THEN st ELSE ScanJob(st, line, JobByPatterns(line, 1)))
        EXCEPT !.seen = @ + 1]

RECURSIVE ScanLines(_, _)
\* the loop over the lines not yet seen
ScanLines(st, lines) ==
    IF st.seen >= Len(lines) THEN st
    ELSE ScanLines(ScanStripped(st, Strip(lines[st.seen + 1])), lines)

\* if current_job: save the last job; work_history before the final cut
Saved(st) ==
    IF IsSome(st.current_job)
    THEN Append(st.work_history, Closed(Val(st.current_job), st.description_lines))
    ELSE st.work_history

\* if exp_section_match: the scan of the lines of the section
JobsOfSection(text, m) ==
    IF ~m.ok THEN <<>> ELSE Saved(ScanLines(ScanStart, Lines(GroupK(text, m, 1))))

AllJobs(text) == JobsOfSection(text, Search(experience_section_pattern, text, TRUE))

\* a return without the cut to the first five
_extract_work_history_uncut(text) == AllJobs(text)

\* a return of the last five
_extract_work_history_last(text) ==
    SubSeq(AllJobs(text),
           IF Len(AllJobs(text)) > MaxWorkHistory THEN Len(AllJobs(text)) - MaxWorkHistory + 1 ELSE 1,
           Len(AllJobs(text)))

_extract_work_history(text) == Take(AllJobs(text), MaxWorkHistory)

(***************************************************************************)
(* _extract_location and _extract_salary_expectation                       *)
(***************************************************************************)
\* ([A-Za-z\s,]+(?:,\s*[A-Z]{2})?)   as group 1
LabeledPlace ==
    Grp(1, Plus(Alpha \cup Space \cup {","})
           \o Maybe(One({","}) \o Star(Space) \o Times(Upper, 2, 2)))

location_patterns == <<
    \* Location:?\s*([A-Za-z\s,]+(?:,\s*[A-Z]{2})?)
    Lit("Location") \o Opt({":"}) \o Star(Space) \o LabeledPlace,
    \* Address:?\s*([A-Za-z\s,]+(?:,\s*[A-Z]{2})?)
    Lit("Address") \o Opt({":"}) \o Star(Space) \o LabeledPlace,
    \* ([A-Za-z\s]+,\s*[A-Z]{2})(?:\s|$)
    Grp(1, Plus(Alpha \cup Space) \o One({","}) \o Star(Space) \o Times(Upper, 2, 2))
        \o Alt(<< One(Space), Eol >>),
    \* ([A-Za-z\s]+,\s*(?:California|New York|Texas|Florida|India|Canada|UK|USA))\b
    Grp(1, Plus(Alpha \cup Space) \o One({","}) \o Star(Space)
           \o Alt(<< Lit("California"), Lit("New York"), Lit("Texas"), Lit("Florida"),
                     Lit("India"), Lit("Canada"), Lit("UK"), Lit("USA") >>)) \o Wb >>

LocationMinLen == 3
LocationMaxLen == 100

\* re.sub(r'\s+', ' ', s)
SquashSpace(s) ==
    Join([i \in 1..Len(s) |->
            IF SubSeq(s, i, i) \notin Space THEN SubSeq(s, i, i)
            ELSE IF i > 1 /\ SubSeq(s, i - 1, i - 1) \in Space THEN "" ELSE " "])

\* if len(location) > 2 and len(location) < 50: return location
ValidLocation(location) ==
    IF Len(location) > LocationMinLen /\ Len(location) < LocationMaxLen
    THEN Some(location) ELSE None

\* if match: location = re.sub(r'\s+', ' ', match.group(1).strip())
LocationOfMatch(text, m) ==
    IF m.ok THEN ValidLocation(SquashSpace(Strip(GroupK(text, m, 1)))) ELSE None

RECURSIVE LocationByPatterns(_, _)
LocationByPatterns(text, k) ==
    IF k > Len(location_patterns) THEN None
    ELSE OrElse(LocationOfMatch(text, Search(location_patterns[k], text, TRUE)),
                LocationByPatterns(text, k + 1))

_extract_location(text) == LocationByPatterns(text, 1)

\* \$?([\d,]+(?:\.\d+)?(?:k|K)?)   the amount, as group 1
Amount ==
    Grp(1, Plus(Digit \cup {","}) \o Maybe(One({"."}) \o Plus(Digit))
           \o Maybe(Alt(<< Lit("k"), Lit("K") >>)))

salary_patterns == <<
    \* Salary:?\s*\$?([\d,]+(?:\.\d+)?(?:k|K)?)
    Lit("Salary") \o Opt({":"}) \o Star(Space) \o Opt({"$"}) \o Amount,
    \* Expected\s+Salary:?\s*\$?([\d,]+(?:\.\d+)?(?:k|K)?)
    Lit("Expected") \o Plus(Space) \o Lit("Salary") \o Opt({":"}) \o Star(Space)
        \o Opt({"$"}) \o Amount,
    \* Compensation:?\s*\$?([\d,]+(?:\.\d+)?(?:k|K)?)
    Lit("Compensation") \o Opt({":"}) \o Star(Space) \o Opt({"$"}) \o Amount,
    \* \$([\d,]+(?:\.\d+)?(?:k|K)?)\s*(?:per\s+year|annually|yearly)?
    One({"$"}) \o Amount \o Star(Space)
        \o Maybe(Alt(<< Lit("per") \o Plus(Space) \o Lit("year"), Lit("annually"),
                        Lit("yearly") >>)) >>

\* if match: return match.group(1)
SalaryOfMatch(text, m) == IF m.ok THEN Some(GroupK(text, m, 1)) ELSE None

RECURSIVE SalaryByPatterns(_, _)
SalaryByPatterns(text, k) ==
    IF k > Len(salary_patterns) THEN None
    ELSE OrElse(SalaryOfMatch(text, Search(salary_patterns[k], text, TRUE)),
                SalaryByPatterns(text, k + 1))

_extract_salary_expectation(text) == SalaryByPatterns(text, 1)

(***************************************************************************)
(* _calculate_confidence_scores and _create_empty_result                   *)
(*                                                                         *)
(* A per-field score is a number of hundredths (0.85 is 85).  The overall  *)
(* score is the quotient sum / count, kept as the pair [num, den].         *)
(***************************************************************************)
ScoreFields == {"name", "email", "phone", "skills", "experience", "education"}

RECURSIVE SumOver(_, _)
\* sum(f[k] for k in keys)
SumOver(f, keys) ==
    IF keys = {} THEN 0
    ELSE LET k == CHOOSE x \in keys : TRUE IN f[k] + SumOver(f, keys \ {k})

\* the mean taken after "overall" has been entered as a seventh score
WithOverall_counted(scores) ==
    [k \in DOMAIN scores \cup {"overall"} |->
        IF k = "overall"
        THEN [num |-> SumOver(scores, DOMAIN scores), den |-> Cardinality(DOMAIN scores) + 1]
        ELSE scores[k]]

\* scores after scores['overall'] = sum(scores.values()) / len(scores)
WithOverall(scores) ==
    [k \in DOMAIN scores \cup {"overall"} |->
        IF k = "overall"
        THEN [num |-> SumOver(scores, DOMAIN scores), den |-> Cardinality(DOMAIN scores)]
        ELSE scores[k]]

\* the truth value Python gives an Optional[str]
Truthy(v) == IsSome(v) /\ Val(v) # ""

\* a scorer that enters no score for education
_calculate_confidence_scores_five(parsed_data) ==
    WithOverall(
        [name |-> IF Truthy(parsed_data.name) /\ Len(Words(Val(parsed_data.name))) >= 2 THEN 90
                  ELSE IF Truthy(parsed_data.name) THEN 60
                  ELSE 10,
         email |-> IF Truthy(parsed_data.email) THEN 95 ELSE 0,
         phone |-> IF Truthy(parsed_data.phone) THEN 85 ELSE 0,
         skills |-> IF Cardinality(parsed_data.skills) >= 5 THEN 90
                    ELSE IF Cardinality(parsed_data.skills) >= 3 THEN 70
                    ELSE IF Cardinality(parsed_data.skills) >= 1 THEN 50
                    ELSE 10,
         experience |-> IF Truthy(parsed_data.experience) THEN 80 ELSE 30])

\* a scorer that gives an empty list of skills the score 0.0
_calculate_confidence_scores_zero(parsed_data) ==
    WithOverall(
        [name |-> IF Truthy(parsed_data.name) /\ Len(Words(Val(parsed_data.name))) >= 2 THEN 90
                  ELSE IF Truthy(parsed_data.name) THEN 60
                  ELSE 10,
         email |-> IF Truthy(parsed_data.email) THEN 95 ELSE 0,
         phone |-> IF Truthy(parsed_data.phone) THEN 85 ELSE 0,
         skills |-> IF Cardinality(parsed_data.skills) >= 5 THEN 90
                    ELSE IF Cardinality(parsed_data.skills) >= 3 THEN 70
                    ELSE IF Cardinality(parsed_data.skills) >= 1 THEN 50
                    ELSE 0,
         experience |-> IF Truthy(parsed_data.experience) THEN 80 ELSE 30,
         education |-> IF Truthy(parsed_data.education) THEN 80 ELSE 20])

_calculate_confidence_scores(parsed_data) ==
    WithOverall(
        [name |-> IF Truthy(parsed_data.name) /\ Len(Words(Val(parsed_data.name))) >= 2 THEN 90
                  ELSE IF Truthy(parsed_data.name) THEN 60
                  ELSE 10,
         email |-> IF Truthy(parsed_data.email) THEN 95 ELSE 0,
         phone |-> IF Truthy(parsed_data.phone) THEN 85 ELSE 0,
         skills |-> IF Cardinality(parsed_data.skills) >= 5 THEN 90
                    ELSE IF Cardinality(parsed_data.skills) >= 3 THEN 70
                    ELSE IF Cardinality(parsed_data.skills) >= 1 THEN 50
                    ELSE 10,
         experience |-> IF Truthy(parsed_data.experience) THEN 80 ELSE 30,
         education |-> IF Truthy(parsed_data.education) THEN 80 ELSE 20])

_create_empty_result ==
    [name |-> None, email |-> None, phone |-> None, skills |-> {},
     experience |-> None, education |-> None, work_history |-> <<>>,
     location |-> None, salary_expectation |-> None, raw_text |-> "",
     confidence_scores |->
        [name |-> 0, email |-> 0, phone |-> 0, skills |-> 0, experience |-> 0,
         education |-> 0, overall |-> [num |-> 0, den |-> 1]]]

(***************************************************************************)
(* The document loader                                                     *)
(*                                                                         *)
(* A file is [ext, state, parts, rows]: the extension of its path, whether *)
(* it is there and well-formed ("ok"), damaged ("corrupt") or absent       *)
(* ("missing"), the texts of its pages (PDF) or paragraphs (DOCX) or lines *)
(* (plain text), and the rows of cells of its tables (DOCX).               *)
(***************************************************************************)
\* the names the module imports (lines 2-7): re, os, logging, typing,
\* datetime, asyncio.  aiofiles is not among them, so evaluating
\* aiofiles.open raises NameError.
aiofiles_imported == FALSE

PdfUnavailableText == "PDF parsing not available. Please install PyPDF2."
DocxUnavailableText == "DOCX parsing not available. Please install python-docx."

_extract_pdf_text(file, pdf_available) ==
    IF ~pdf_available THEN PdfUnavailableText
    ELSE IF file.state # "ok" THEN ""
    ELSE Strip(Join([k \in 1..Len(file.parts) |->
                        IF file.parts[k] # "" THEN file.parts[k] \o "\n" ELSE ""]))

\* " | ".join of the stripped non-blank cells of a row; "" when there is none
RowText(row) ==
    JoinWith(NonEmpty([k \in 1..Len(row) |-> Strip(row[k])]), " | ")

_extract_docx_text(file, docx_available) ==
    IF ~docx_available THEN DocxUnavailableText
    ELSE IF file.state # "ok" THEN ""
    ELSE JoinWith(NonEmpty([k \in 1..Len(file.parts) |->
                              IF Strip(file.parts[k]) # "" THEN file.parts[k] ELSE ""])
                  \o NonEmpty([k \in 1..Len(file.rows) |-> RowText(file.rows[k])]),
                  "\n")

\* the two plain-text branches: async with aiofiles.open(...) as f: return await f.read()
ReadPlainText(file) ==
    IF ~aiofiles_imported THEN ""
    ELSE IF file.state # "ok" THEN ""
    ELSE JoinWith(file.parts, "\n")

\* load_fails: an exception raised inside the loader, which its own handler
\* turns into ""
_extract_text_from_file(file, pdf_available, docx_available, load_fails) ==
    LET file_extension == StrLower(file.ext)
    IN  IF load_fails THEN ""
        ELSE IF file_extension = ".pdf" THEN _extract_pdf_text(file, pdf_available)
        ELSE IF file_extension \in {".docx", ".doc"} THEN _extract_docx_text(file, docx_available)
        ELSE ReadPlainText(file)

(***************************************************************************)
(* parse_resume                                                            *)
(*                                                                         *)
(* A call is [file, fault, annot, year]: the file of the path passed, the  *)
(* step in which an exception is raised that the step does not handle      *)
(* itself ("none": no step raises; e.g. int() refusing a digit run longer  *)
(* than the interpreter's limit in _extract_experience, or MemoryError),   *)
(* what self.nlp(text) does, and datetime.now().year.                      *)
(***************************************************************************)
RawTextLimit == 2000

\* the extractors in the order the dict literal of parse_resume calls them
Extractors == <<"name", "email", "phone", "skills", "experience", "education",
                "work_history", "location", "salary_expectation">>

\* the value an extractor returns for the text
Extract(step, text, call, env) ==
    CASE step = "name" -> _extract_name(text)
      [] step = "email" -> _extract_email(text)
      [] step = "phone" -> _extract_phone(text)
      [] step = "skills" -> _extract_skills(text, env.nlp, env.spacy, call.annot)
      [] step = "experience" -> _extract_experience(text, call.year)
      [] step = "education" -> _extract_education(text)
      [] step = "work_history" -> _extract_work_history(text)
      [] step = "location" -> _extract_location(text)
      [] step = "salary_expectation" -> _extract_salary_expectation(text)

\* a parse_resume without the test for blank text
IsBlank_never(text) == FALSE

\* not text.strip()
IsBlank(text) == Strip(text) = ""

\* parsed_data as the dict literal builds it
ParsedFields(text, call, env) ==
    [name |-> _extract_name(text),
     email |-> _extract_email(text),
     phone |-> _extract_phone(text),
     skills |-> _extract_skills(text, env.nlp, env.spacy, call.annot),
     experience |-> _extract_experience(text, call.year),
     education |-> _extract_education(text),
     work_history |-> _extract_work_history(text),
     location |-> _extract_location(text),
     salary_expectation |-> _extract_salary_expectation(text),
     raw_text |-> SubSeq(text, 1, IF Len(text) < RawTextLimit THEN Len(text) ELSE RawTextLimit),
     confidence_scores |-> << >>]

\* parsed_data['confidence_scores'] = self._calculate_confidence_scores(parsed_data)
WithScores(parsed_data) ==
    [parsed_data EXCEPT !.confidence_scores = _calculate_confidence_scores(parsed_data)]

\* parsed_data with its scores
ParsedData(text, call, env) == WithScores(ParsedFields(text, call, env))

\* the position of a step among the extractors (0: not an extractor)
StepIndex(step) ==
    IF \E k \in 1..Len(Extractors) : Extractors[k] = step
    THEN CHOOSE k \in 1..Len(Extractors) : Extractors[k] = step
    ELSE 0

\* a handler that returns the empty fields with the scores the scorer gives them
HandleParseError_scored ==
    [outcome |-> "returned",
     value |-> Some([_create_empty_result EXCEPT
                       !.confidence_scores = _calculate_confidence_scores(_create_empty_result)])]

\* a handler that logs and raises again
HandleParseError_reraise == [outcome |-> "raised", value |-> None]

\* the except clause of parse_resume: log, return self._create_empty_result()
HandleParseError == [outcome |-> "returned", value |-> Some(_create_empty_result)]

\* parse_resume: [outcome, value, text, steps, handled]; steps lists what was
\* invoked, handled tells that the except clause ran
ParseText(text, call, env) ==
    IF IsBlank(text)
    THEN [outcome |-> "returned", value |-> Some(_create_empty_result),
          text |-> text, steps |-> <<"load">>, handled |-> FALSE]
    ELSE IF StepIndex(call.fault) > 0
    THEN [outcome |-> HandleParseError.outcome, value |-> HandleParseError.value,
          text |-> text,
          steps |-> <<"load">> \o SubSeq(Extractors, 1, StepIndex(call.fault)),
          handled |-> TRUE]
    ELSE IF call.fault = "score"
    THEN [outcome |-> HandleParseError.outcome, value |-> HandleParseError.value,
          text |-> text, steps |-> <<"load">> \o Extractors \o <<"score">>,
          handled |-> TRUE]
    ELSE [outcome |-> "returned", value |-> Some(ParsedData(text, call, env)),
          text |-> text, steps |-> <<"load">> \o Extractors \o <<"score">>,
          handled |-> FALSE]

\* parse_resume: the text of the file, then the profile of the text
parse_resume(call, env) ==
    ParseText(_extract_text_from_file(call.file, env.pdf, env.docx, call.fault = "load"), call, env)

(***************************************************************************)
(* The state machine                                                       *)
(***************************************************************************)
VARIABLES
    SPACY_AVAILABLE,        \* module flag: import spacy succeeded
    PDF_PARSING_AVAILABLE,  \* module flag: PyPDF2 or pypdf was imported
    DOCX_PARSING_AVAILABLE, \* module flag: python-docx was imported
    pc,                     \* "module": imported, no parser yet; "ready": a parser
                            \* is constructed; "failed": __init__ raised
    nlp,                    \* self.nlp: "None" or "model"
    call,                   \* the call of parse_resume in progress, or None
    ret                     \* what the last call of parse_resume came to, or None

vars == <<SPACY_AVAILABLE, PDF_PARSING_AVAILABLE, DOCX_PARSING_AVAILABLE, pc, nlp, call, ret>>

flags == <<SPACY_AVAILABLE, PDF_PARSING_AVAILABLE, DOCX_PARSING_AVAILABLE>>

\* the module is imported: each optional import has succeeded or not
Init ==
    /\ SPACY_AVAILABLE \in BOOLEAN
    /\ PDF_PARSING_AVAILABLE \in BOOLEAN
    /\ DOCX_PARSING_AVAILABLE \in BOOLEAN
    /\ pc = "module"
    /\ nlp = "None"
    /\ call = None
    /\ ret = None

\* what spacy.load("en_core_web_sm") can do
LoadOutcomes == {"ok", "OSError", "other"}

\* _initialize_nlp: [raised, nlp]; first and second are what the first and
\* the second spacy.load do
_initialize_nlp(spacy_available, first, second) ==
    IF spacy_available
    THEN IF first = "ok" THEN [raised |-> FALSE, nlp |-> "model"]
         ELSE IF first = "OSError"
              THEN [raised |-> FALSE, nlp |-> IF second = "ok" THEN "model" ELSE "None"]
              ELSE [raised |-> TRUE, nlp |-> "None"]
    ELSE [raised |-> FALSE, nlp |-> "None"]

\* EnhancedResumeParser()
Construct ==
    /\ pc = "module"
    /\ \E first \in LoadOutcomes, second \in LoadOutcomes :
          LET r == _initialize_nlp(SPACY_AVAILABLE, first, second)
          IN  /\ nlp' = r.nlp
              /\ pc' = IF r.raised THEN "failed" ELSE "ready"
    /\ UNCHANGED <<flags, call, ret>>

(***************************************************************************)
(* What the environment answers                                            *)
(***************************************************************************)
\* self.nlp(text): raises, or gives a document with these entities
NoEnts == [raises |-> FALSE, ents |-> {}]

NoAnnots == {NoEnts}

Annots ==
    {NoEnts, [raises |-> TRUE, ents |-> {}],
     [raises |-> FALSE, ents |-> {[text |-> "flask", label_ |-> "ORG"],
                                  [text |-> "Jane Doe", label_ |-> "PERSON"]}]}

\* datetime.now().year
Years == {2025}

\* calls made in one year and in the next
ClockYears == {2025, 2026}

\* what parse_resume reads besides its argument
Env == [nlp |-> nlp, spacy |-> SPACY_AVAILABLE,
        pdf |-> PDF_PARSING_AVAILABLE, docx |-> DOCX_PARSING_AVAILABLE]

\* a caller awaits parser.parse_resume(file_path); what self.nlp(text) does
\* is an input only where there is a model to call
Call(files, faults, annots, years) ==
    /\ pc = "ready"
    /\ call = None
    /\ ret = None
    /\ \E f \in files, x \in faults, a \in (IF nlp = "model" THEN annots ELSE NoAnnots),
          y \in years :
          call' = Some([file |-> f, fault |-> x, annot |-> a, year |-> y])
    /\ UNCHANGED <<flags, pc, nlp, ret>>

\* the coroutine runs to its return
\* a parse_resume that loads the model again before it parses
ParseResume_reloading ==
    /\ call # None
    /\ ret' = Some([call |-> Val(call), done |-> parse_resume(Val(call), Env)])
    /\ call' = None
    /\ \E first \in LoadOutcomes, second \in LoadOutcomes :
          nlp' = _initialize_nlp(SPACY_AVAILABLE, first, second).nlp
    /\ UNCHANGED <<flags, pc>>

\* a parse_resume that gives up the model for good once the model has raised
ParseResume_disabling ==
    /\ call # None
    /\ ret' = Some([call |-> Val(call), done |-> parse_resume(Val(call), Env)])
    /\ call' = None
    /\ nlp' = IF Val(call).annot.raises THEN "None" ELSE nlp
    /\ UNCHANGED <<flags, pc>>

ParseResume ==
    /\ call # None
    /\ ret' = Some([call |-> Val(call), done |-> parse_resume(Val(call), Env)])
    /\ call' = None
    /\ UNCHANGED <<flags, pc, nlp>>

\* the caller takes the result
Collect ==
    /\ ret # None
    /\ ret' = None
    /\ UNCHANGED <<flags, pc, nlp, call>>

(***************************************************************************)
(* Inputs                                                                  *)
(***************************************************************************)
\* the sequences of at most n elements of S
SeqsUpTo(S, n) == UNION {[1..k -> S] : k \in 0..n}

\* the documents of the given extensions and conditions with the given
\* pages or paragraphs
FilesOf(exts, states, docs) ==
    {[ext |-> e, state |-> s, parts |-> d, rows |-> << >>] :
        e \in exts, s \in states, d \in docs}

Exts == {".pdf", ".DOC", ".txt", ""}

\* "unreadable": absent, or not a document of the format its name says
FileStates == {"ok", "unreadable"}

Faults == {"none", "load", "score"} \cup {Extractors[k] : k \in 1..Len(Extractors)}

\* the pages (paragraphs) documents are made of
PagePool ==
    {"Jane Doe\njane@corp.io\n415-555-0100",
     "Skills: Python, Java, Docker, Git, AWS",
     "Madonna\n5 years of experience\nBachelor of Science",
     "  "}

MaxPages == 1

Requests == FilesOf(Exts, FileStates, SeqsUpTo(PagePool, MaxPages))

Next ==
    \/ Construct
    \/ Call(Requests, Faults, Annots, Years)
    \/ ParseResume
    \/ Collect

Spec == Init /\ [][Next]_vars

(***************************************************************************)
(* Specifications of the extractors: both readers are installed, a PDF     *)
(* that can be read is parsed and no step raises; the pages differ.       *)
(***************************************************************************)
InitReaders ==
    /\ SPACY_AVAILABLE \in BOOLEAN
    /\ PDF_PARSING_AVAILABLE = TRUE
    /\ DOCX_PARSING_AVAILABLE = TRUE
    /\ pc = "module"
    /\ nlp = "None"
    /\ call = None
    /\ ret = None

PdfsOf(pool, n) == FilesOf({".pdf"}, {"ok"}, SeqsUpTo(pool, n))

\* pages that name skills in and out of a skills section, in every casing
SkillPool ==
    {"Expert in C++ and python",
     "Skills: react.js, Rust - golang",
     "Technologies: FLASK | c#",
     "I like gardening",
     "Competencies: Problem solving; Embedded Linux"}

MaxSkillPages == 2

SkillAnnots ==
    {NoEnts, [raises |-> TRUE, ents |-> {}],
     [raises |-> FALSE, ents |-> {[text |-> "C++", label_ |-> "PRODUCT"],
                                  [text |-> "react.js", label_ |-> "PRODUCT"],
                                  [text |-> "python", label_ |-> "PERSON"],
                                  [text |-> "Embedded Linux", label_ |-> "ORG"]}]}

SkillRequests == PdfsOf(SkillPool, MaxSkillPages)

\* no step is made to raise
NoFaults == {"none"}

NextSkills ==
    \/ Construct
    \/ Call(SkillRequests, NoFaults, SkillAnnots, Years)
    \/ ParseResume
    \/ Collect

SpecSkills == InitReaders /\ [][NextSkills]_vars

\* pages of an experience section: job headers of the three forms, bullets
\* (one before the first header, one with a comma in it), narrative lines,
\* and the header that ends the section
HistoryPool ==
    {"Experience\nEngineer at Acme 2019-2021\n- built the api\n- ran the team\n* cut the costs\n- wrote the docs\nDeveloper at Beta 2017-2019\nAnalyst | Omega | 2010-2012",
     "Manager at Gamma 2015 - Present\nIntern at Delta\nClerk, Sigma 2009-2010\nworked on a long running data project",
     "Tester at Kappa",
     "Experience\n- early bullet\nLead at Zeta\n- shipped early, often",
     "Education\nStanford"}

MaxHistoryPages == 2

HistoryRequests == PdfsOf(HistoryPool, MaxHistoryPages)

NextHistory ==
    \/ Construct
    \/ Call(HistoryRequests, NoFaults, NoAnnots, Years)
    \/ ParseResume
    \/ Collect

SpecHistory == InitReaders /\ [][NextHistory]_vars

\* pages that name degrees and institutions
EducationPool ==
    {"Bachelor of Arts, 2010.",
     "Master of Science (MIT).",
     "PhD, Stanford University.",
     "Diploma.",
     "College of Music; School of Law; Institute of Art.",
     "no schooling"}

MaxEducationPages == 2

EducationRequests == PdfsOf(EducationPool, MaxEducationPages)

NextEducation ==
    \/ Construct
    \/ Call(EducationRequests, NoFaults, NoAnnots, Years)
    \/ ParseResume
    \/ Collect

SpecEducation == InitReaders /\ [][NextEducation]_vars

\* pages of contact lines, of experience phrases and of year mentions; the
\* calls are made in two different years
JohnSmithText ==
    "John Smith\njohn.smith@example.org\n(555) 123-4567\nSkills: Python, React, AWS\n5 years experience"

NoStructureText == "asdf qwer zxcv"

FieldPool ==
    {JohnSmithText,
     NoStructureText,
     "75 years of experience",
     "Worked 2020 to 2030",
     "From 1901 till 1990",
     "over 3 years, 2010 to 2020",
     "Phone: +++++12345",
     "Mobile: 12345",
     "placeholder@corp.io then Ann@Corp.IO",
     "bob@test.com",
     "Hi@There.co, c@d.io"}

MaxFieldPages == 1

FieldRequests == PdfsOf(FieldPool, MaxFieldPages)

NextFields ==
    \/ Construct
    \/ Call(FieldRequests, NoFaults, NoAnnots, ClockYears)
    \/ ParseResume
    \/ Collect

SpecFields == InitReaders /\ [][NextFields]_vars

\* pages of name lines: names of two words, with a middle initial, behind a
\* label, a heading of boilerplate words that has the shape of a name, and
\* ten short lines that push the next page to line 11
NamePool ==
    {"Jane Roe",
     "Professional Summary",
     "John M. Smith",
     "John M Smith",
     "Name: Ann Lee",
     "Madonna",
     "x\nx\nx\nx\nx\nx\nx\nx\nx\nx"}

MaxNamePages == 2

NameRequests == PdfsOf(NamePool, MaxNamePages)

NextNames ==
    \/ Construct
    \/ Call(NameRequests, NoFaults, NoAnnots, Years)
    \/ ParseResume
    \/ Collect

SpecNames == InitReaders /\ [][NextNames]_vars

(***************************************************************************)
(* Properties                                                              *)
(***************************************************************************)
\* the call that has returned, what it came to, and the profile it returned
Returned == ret # None
Asked == Val(ret).call
Done == Val(ret).done
Profile == Val(Done.value)

ProfileKeys ==
    {"name", "email", "phone", "skills", "experience", "education", "work_history",
     "location", "salary_expectation", "raw_text", "confidence_scores"}

\* C1: whatever the file is (absent, damaged, of any extension, of any
\* content) and whichever step raises, parse_resume returns: no exception
\* leaves it, and what it returns is a record with exactly the eleven keys
\* of a profile.
C1_AlwaysReturnsProfile ==
    Returned =>
        /\ Done.outcome = "returned"
        /\ IsSome(Done.value)
        /\ DOMAIN Profile = ProfileKeys

\* an extractor raised on the text of a readable document, and the call returned
C1_Witness ==
    /\ Returned
    /\ Asked.fault = "skills"
    /\ Asked.file.state = "ok"
    /\ Done.handled
    /\ Done.outcome = "returned"

\* every score is 0.0, every optional field is absent, every collection is empty
IsCanonicalEmpty(p) ==
    /\ DOMAIN p.confidence_scores = ScoreFields \cup {"overall"}
    /\ \A k \in ScoreFields : p.confidence_scores[k] = 0
    /\ p.confidence_scores.overall.num = 0
    /\ p.name = None /\ p.email = None /\ p.phone = None
    /\ p.experience = None /\ p.education = None
    /\ p.location = None /\ p.salary_expectation = None
    /\ p.skills = {} /\ p.work_history = << >>
    /\ p.raw_text = ""

\* C2: when the text the loader gives is empty or only whitespace, the
\* profile returned is the canonical empty profile, and nothing but the
\* loader has been invoked: no extractor, no scorer.
C2_BlankTextShortCircuits ==
    (Returned /\ Strip(Done.text) = "") =>
        /\ IsSome(Done.value)
        /\ IsCanonicalEmpty(Profile)
        /\ Done.steps = <<"load">>

\* a readable document whose only page is whitespace was parsed, nothing raising
C2_Witness ==
    /\ Returned
    /\ Asked.fault = "none"
    /\ Asked.file.state = "ok"
    /\ Asked.file.parts = <<"  ">>
    /\ StrLower(Asked.file.ext) = ".pdf"
    /\ PDF_PARSING_AVAILABLE
    /\ Done.text = ""
    /\ Done.steps = <<"load">>

\* C3: when an exception reaches the except clause of parse_resume, the
\* profile returned is exactly the canonical empty profile: nothing of what
\* the earlier steps had extracted or scored is in it.
C3_FailureGivesCanonicalEmpty ==
    (Returned /\ Done.handled) =>
        /\ IsSome(Done.value)
        /\ IsCanonicalEmpty(Profile)

\* the last extractor raised after the name and the e-mail address had been
\* extracted, and the profile returned has neither
C3_Witness ==
    /\ Returned
    /\ Done.handled
    /\ Asked.fault = "salary_expectation"
    /\ Len(Done.steps) = 1 + Len(Extractors)
    /\ _extract_name(Done.text) # None
    /\ _extract_email(Done.text) # None
    /\ Profile.name = None

\* what a field holds when nothing was extracted for it
Absent(k) == IF k = "skills" THEN {} ELSE IF k = "work_history" THEN << >> ELSE None

ExtractorSet == {Extractors[k] : k \in 1..Len(Extractors)}

\* C4: when one extractor raises on text that is not blank, the profile
\* returned has that one field absent and every other field as its own
\* extractor gives it for the text.
C4_OneFailureIsIsolated ==
    (Returned /\ Strip(Done.text) # "" /\ Asked.fault \in ExtractorSet) =>
        /\ IsSome(Done.value)
        /\ Profile[Asked.fault] = Absent(Asked.fault)
        /\ \A k \in ExtractorSet \ {Asked.fault} :
              Profile[k] = Extract(k, Done.text, Asked, Env)

\* the entries of a score map other than "overall", and their sum
PerField(cs) == DOMAIN cs \ {"overall"}
Total(cs) == SumOver(cs, PerField(cs))

\* C5: every profile returned, parsed or empty, has the score "overall", and
\* it is the unweighted mean of all the other scores of the profile:
\* overall * (number of the others) = sum of the others.
C5_OverallIsMeanOfOthers ==
    Returned =>
        LET cs == Profile.confidence_scores
        IN  /\ "overall" \in DOMAIN cs
            /\ PerField(cs) # {}
            /\ cs.overall.num * Cardinality(PerField(cs)) = cs.overall.den * Total(cs)

\* a parsed profile whose scores are not all the same
C5_Witness ==
    /\ Returned
    /\ ~Done.handled
    /\ Profile.confidence_scores.email = 95
    /\ Profile.confidence_scores.education = 20
    /\ Profile.confidence_scores.overall.num > 0

\* C6 as stated: besides "overall" there are exactly five scores, and
\* overall is their sum divided by five.
C6_MeanOfFive ==
    Returned =>
        LET cs == Profile.confidence_scores
        IN  /\ Cardinality(PerField(cs)) = 5
            /\ cs.overall.num * 5 = cs.overall.den * Total(cs)

\* C6 amended: besides "overall" there are exactly the six scores name,
\* email, phone, skills, experience and education, and overall is their sum
\* divided by six.
C6_MeanOfSix ==
    Returned =>
        LET cs == Profile.confidence_scores
        IN  /\ PerField(cs) = ScoreFields
            /\ Cardinality(ScoreFields) = 6
            /\ cs.overall.num * 6 = cs.overall.den * Total(cs)

\* a parsed profile with a name, an e-mail address and a telephone number and
\* nothing else: overall is (0.9 + 0.95 + 0.85 + 0.1 + 0.3 + 0.2) / 6
C6_Witness ==
    /\ Returned
    /\ ~Done.handled
    /\ Profile.confidence_scores.name = 90
    /\ Profile.confidence_scores.phone = 85
    /\ Profile.confidence_scores.overall = [num |-> 90 + 95 + 85 + 10 + 30 + 20, den |-> 6]

\* the score the scoring table gives each field of a profile
TableScore(p, k) ==
    CASE k = "name" -> IF p.name = None THEN 10
                       ELSE IF Len(Words(Val(p.name))) >= 2 THEN 90 ELSE 60
      [] k = "email" -> IF p.email = None THEN 0 ELSE 95
      [] k = "phone" -> IF p.phone = None THEN 0 ELSE 85
      [] k = "skills" -> IF Cardinality(p.skills) >= 5 THEN 90
                         ELSE IF Cardinality(p.skills) >= 3 THEN 70
                         ELSE IF Cardinality(p.skills) >= 1 THEN 50 ELSE 10
      [] k = "experience" -> IF p.experience = None THEN 30 ELSE 80
      [] k = "education" -> IF p.education = None THEN 20 ELSE 80

\* C7: in every profile that comes of text that is not blank, each of the
\* six per-field scores is the one the scoring table gives for the field of
\* that profile.
C7_ScoresFollowFields ==
    (Returned /\ Strip(Done.text) # "") =>
        \A k \in ScoreFields : Profile.confidence_scores[k] = TableScore(Profile, k)

\* the canonical names: the entries of the categories of the taxonomy
CanonicalNames ==
    UNION {{skill_taxonomy[c][k] : k \in 1..Len(skill_taxonomy[c])} : c \in DOMAIN skill_taxonomy}

\* C8: with or without the NLP model, whatever the text, every element of
\* skills is a canonical name of the taxonomy, spelt and cased as there.
C8_SkillsAreCanonical ==
    Returned => Profile.skills \subseteq CanonicalNames

\* the model is loaded and annotates the text; skills holds "Python" and
\* "React", which the text spells "python" and "react.js", and "C++", which
\* only the entity gives
C8_Witness ==
    /\ Returned
    /\ nlp = "model"
    /\ ~Asked.annot.raises /\ Asked.annot.ents # {}
    /\ {"Python", "React", "C++"} \subseteq Profile.skills
    /\ ~Contains(Done.text, "Python")
    /\ ~Contains(Done.text, "React")
    /\ "C++" \notin _extract_skills(Done.text, "None", FALSE, NoEnts)

\* C9: whatever the text, work_history has at most 5 entries, and a
\* description, where an entry has one, has at most 3 lines.
C9_WorkHistoryIsCut ==
    Returned =>
        /\ Len(Profile.work_history) <= 5
        /\ \A k \in 1..Len(Profile.work_history) :
              "description" \in DOMAIN Profile.work_history[k]
                 => Len(Profile.work_history[k].description) <= 3

\* the section has more than five job headers and the first job has four
\* description lines: five entries are returned, the first with three lines
C9_Witness ==
    /\ Returned
    /\ Len(AllJobs(Done.text)) > 5
    /\ Len(Profile.work_history) = 5
    /\ Contains(Done.text, "- wrote the docs")
    /\ "description" \in DOMAIN Profile.work_history[1]
    /\ Profile.work_history[1].description = <<"built the api", "ran the team", "cut the costs">>

\* the items of a string joined by "; ", none of which holds a semicolon
ItemsOf(e) ==
    LET pieces == SplitOn(e, {";"})
    IN  [k \in 1..Len(pieces) |->
            IF k = 1 THEN pieces[k] ELSE SubSeq(pieces[k], 2, Len(pieces[k]))]

\* the set of the elements of a sequence
Range(q) == {q[k] : k \in 1..Len(q)}

\* C10: whatever the text, education is absent, or it is at most 3 items
\* joined by "; ", each a degree or institution match of the text, of which
\* at most 2 are institution matches.
C10_EducationIsCut ==
    Returned =>
        \/ Profile.education = None
        \/ LET e == Val(Profile.education)
               items == ItemsOf(e)
               institutions == Range(FindAll(university_pattern, Done.text, TRUE, 1))
               degrees == Range(DegreeMatches(Done.text, 1))
           IN  /\ JoinWith(items, "; ") = e
               /\ Len(items) >= 1 /\ Len(items) <= 3
               /\ \A k \in 1..Len(items) : items[k] \in institutions \cup degrees
               /\ Cardinality({k \in 1..Len(items) : items[k] \in institutions}) <= 2

\* the text has one degree and four institutions: education is the degree
\* and the first two institutions
C10_Witness ==
    /\ Returned
    /\ Len(DegreeMatches(Done.text, 1)) = 1
    /\ Len(FindAll(university_pattern, Done.text, TRUE, 1)) = 4
    /\ Profile.education = Some("PhD; University; College of Music")

(***************************************************************************)
(* Contact lines, experience phrases and year mentions (SpecFields)        *)
(***************************************************************************)
\* C11: whenever experience is present it is "<N>+ years" for an integer N
\* with 0 <= N <= 50, whether it comes from an explicit phrase or from the
\* span of the years mentioned.
C11_ExperienceIsBounded ==
    Returned /\ IsSome(Profile.experience) =>
        \E n \in 0..MaxExperienceYears : Val(Profile.experience) = YearsText(n)

\* C12: whenever phone is present it is text of the document as it was
\* matched, and what is left of it when every character that is not a
\* digit is removed has between 10 and 15 digits.
C12_PhoneHasTenToFifteenDigits ==
    Returned /\ IsSome(Profile.phone) =>
        /\ Contains(Done.text, Val(Profile.phone))
        /\ PhoneMinDigits <= Len(KeepChars(Val(Profile.phone), Digit))
        /\ Len(KeepChars(Val(Profile.phone), Digit)) <= PhoneMaxDigits

(***************************************************************************)
(* The loader and the parser's construction (Spec)                         *)
(***************************************************************************)
\* a stage of the loader fails for the call that has returned: the file is
\* absent or damaged, the loader raises, or the reader of its format is not
\* installed
StageFails ==
    \/ Asked.file.state # "ok"
    \/ Asked.fault = "load"
    \/ StrLower(Asked.file.ext) = ".pdf" /\ ~PDF_PARSING_AVAILABLE
    \/ StrLower(Asked.file.ext) \in {".docx", ".doc"} /\ ~DOCX_PARSING_AVAILABLE

\* C13: the loader never raises, and when a stage of it fails (reader not
\* installed, damaged file, unreadable bytes, absent file) the text is the
\* empty string and the call returns the canonical empty profile (no
\* extractor is made to raise).
C13_StageFailureGivesEmptyText ==
    Returned /\ StageFails /\ Asked.fault \in {"none", "load"} =>
        /\ Done.outcome = "returned"
        /\ Done.text = ""
        /\ IsCanonicalEmpty(Profile)

\* C14: for a readable file whose extension is .txt or is none of the known
\* ones, the text is the content of the file, so that content that is not
\* blank gives a parsed profile (not the canonical empty one) whose raw_text
\* is a prefix of the content (no step is made to raise).
C14_PlainTextIsRead ==
    Returned /\ Asked.file.state = "ok" /\ Asked.fault = "none"
             /\ StrLower(Asked.file.ext) \notin {".pdf", ".docx", ".doc"} =>
        /\ Done.text = JoinWith(Asked.file.parts, "\n")
        /\ ~IsBlank(Done.text) =>
              /\ ~IsCanonicalEmpty(Profile)
              /\ StartsWith(Done.text, Profile.raw_text)

\* C15: a second run on the same file, made in any year, returns the profile
\* the first run returned: every field and every score is the same.
C15_SameInputSameProfile ==
    Returned =>
        \A y \in ClockYears :
            parse_resume([Asked EXCEPT !.year = y], Env).value = Done.value

\* C16: the text "John Smith / john.smith@example.org / (555) 123-4567 /
\* Skills: Python, React, AWS / 5 years experience" gives name "John Smith",
\* phone "(555) 123-4567", experience "5+ years" and exactly the skills
\* Python, React and AWS.
C16_JohnSmithProfile ==
    Returned /\ Done.text = JohnSmithText =>
        /\ Profile.name = Some("John Smith")
        /\ Profile.phone = Some("(555) 123-4567")
        /\ Profile.experience = Some("5+ years")
        /\ Profile.skills = {"Python", "React", "AWS"}

\* C17: the text "asdf qwer zxcv", in which nothing is recognised, gives a
\* profile with name, email, phone and experience absent and no skills, and
\* the score of skills is 0.1, not 0.0.
C17_NoStructureProfile ==
    Returned /\ Done.text = NoStructureText =>
        /\ Profile.name = None
        /\ Profile.email = None
        /\ Profile.phone = None
        /\ Profile.experience = None
        /\ Profile.skills = {}
        /\ Profile.confidence_scores.skills = 10

\* the call on the text "asdf qwer zxcv" has returned, all steps done
C17_Witness ==
    /\ Returned
    /\ Done.text = NoStructureText
    /\ Done.steps = <<"load">> \o Extractors \o <<"score">>
    /\ ~Done.handled

\* C18: the handle of the model is resolved when the parser is constructed:
\* once there is a parser, no step (no call of parse_resume, no return of
\* one) loads the model again or changes the handle or the flag, so every
\* call sees what the first call saw.
C18_HandleIsResolvedOnce ==
    [][pc = "ready" =>
          /\ nlp' = nlp
          /\ SPACY_AVAILABLE' = SPACY_AVAILABLE
          /\ pc' = "ready"]_vars

\* a call has been parsed and returned by a parser that holds a model
C18_Witness ==
    /\ Returned
    /\ pc = "ready"
    /\ nlp = "model"
    /\ Done.steps = <<"load">> \o Extractors \o <<"score">>

\* C19: whatever goes wrong when the model is loaded, the construction of
\* the parser does not raise: there is a parser, and a parser left without
\* a model returns from every call, its skills found without the model.
C19_InitFailureIsSwallowed ==
    /\ pc # "failed"
    /\ Returned /\ nlp = "None" /\ Asked.fault = "none" /\ ~IsBlank(Done.text) =>
          /\ Done.outcome = "returned"
          /\ Profile.skills = _extract_skills(Done.text, "None", SPACY_AVAILABLE, NoEnts)

\* what follows the "@" of an address
DomainOf(address) ==
    SubSeq(address, (CHOOSE i \in 1..Len(address) : SubSeq(address, i, i) = "@") + 1, Len(address))

\* the domain of the address is one of the placeholder domains
DomainIsListed(address) ==
    \E k \in 1..Len(email_denylist) : Contains(StrLower(DomainOf(address)), email_denylist[k])

\* the addresses of the text, in the order of the text, without those of a
\* placeholder domain
UnlistedAddresses(text) ==
    SelectSeq(FindAll(email_pattern, text, FALSE, 0), LAMBDA a : ~DomainIsListed(a))

\* C20: email is the first address of the text whose domain is not a
\* placeholder domain, in lower case, and is absent when there is no such
\* address; nothing but its domain excludes an address.
C20_EmailIsFirstUnlistedDomain ==
    Returned /\ ~IsBlank(Done.text) /\ ~Done.handled =>
        Profile.email = IF UnlistedAddresses(Done.text) = <<>> THEN None
                        ELSE Some(StrLower(UnlistedAddresses(Done.text)[1]))

(***************************************************************************)
(* Skills, work history and names                                          *)
(***************************************************************************)
\* word occurs in text as a complete word, whatever the case: it stands
\* there with no word character right before it and none right after it
OccursAsWord(word, text) ==
    \E i \in 1..(Len(text) - Len(word) + 1) :
        /\ StrLower(SubSeq(text, i, i + Len(word) - 1)) = StrLower(word)
        /\ ~IsWordAt(Chars(text), i - 1)
        /\ ~IsWordAt(Chars(text), i + Len(word))

\* C21: every skill of the profile occurs somewhere in the text as a
\* complete word, compared without regard to case, not merely inside a
\* longer word (the parser has no model, so no entity adds a skill).
C21_SkillsAreWholeWords ==
    Returned /\ nlp = "None" =>
        \A skill \in Profile.skills : OccursAsWord(skill, Done.text)

StrippedLines(lines) == [k \in 1..Len(lines) |-> Strip(lines[k])]

SectionLinesOf(text, m) ==
    IF m.ok THEN StrippedLines(Lines(GroupK(text, m, 1))) ELSE <<>>

\* the stripped lines of the experience section of the text; none when the
\* text has no such section
SectionLines(text) == SectionLinesOf(text, Search(experience_section_pattern, text, TRUE))

\* the positions of the job-header lines among the lines L
HeaderLines(L) == { i \in 1..Len(L) : L[i] # "" /\ IsSome(JobByPatterns(L[i], 1)) }

\* the k-th position of H
NthOf(H, k) == CHOOSE i \in H : Cardinality({ j \in H : j < i }) = k - 1

\* where the lines of the k-th header end: at the next header, or after line n
EndOf(H, k, n) == IF k < Cardinality(H) THEN NthOf(H, k + 1) ELSE n + 1

\* what a line gives as a description line: a bullet without its mark, a
\* long line as it is, any other line nothing
DescribedBy(line) ==
    IF line = "" THEN <<>>
    ELSE IF StartsWith(line, "-") \/ StartsWith(line, "*")
    THEN <<Strip(SubSeq(line, 2, Len(line)))>>
    ELSE IF Len(line) > MinNarrativeLen THEN <<line>>
    ELSE <<>>

DescribedByAll(q) == [i \in 1..Len(q) |-> DescribedBy(q[i])[1]]

\* the description lines of the lines of L strictly between lo and hi
DescriptionsIn(L, lo, hi) ==
    DescribedByAll(SelectSeq(SubSeq(L, lo + 1, hi - 1), LAMBDA l : DescribedBy(l) # <<>>))

EntryIs(e, job, desc) ==
    /\ e.title = job.title
    /\ e.company = job.company
    /\ e.dates = job.dates
    /\ ("description" \in DOMAIN e) = (desc # <<>>)
    /\ desc # <<>> => e.description = Take(desc, MaxDescriptionLines)

\* entry e is the one of the k-th header: its fields are read from that
\* line, its description is the first three at most of the description
\* lines between that line and the next header
EntryFollows(e, L, H, k) ==
    EntryIs(e, Val(JobByPatterns(L[NthOf(H, k)], 1)),
            DescriptionsIn(L, NthOf(H, k), EndOf(H, k, Len(L))))

ScanIsLineByLine(work_history, L, H) ==
    /\ Len(work_history) =
          (IF Cardinality(H) < MaxWorkHistory THEN Cardinality(H) ELSE MaxWorkHistory)
    /\ \A k \in 1..Len(work_history) : EntryFollows(work_history[k], L, H, k)

\* C23: the section is scanned line by line: every job-header line closes
\* the entry that is open, with the first three at most of the description
\* lines collected since its header, and opens a new one; the description
\* lines of an entry lie between its header and the next header; a line
\* before the first header is in no description.
C23_ScanIsAStateMachine ==
    Returned =>
        ScanIsLineByLine(Profile.work_history, SectionLines(Done.text),
                         HeaderLines(SectionLines(Done.text)))

\* a section with a bullet before its first header, and two entries at
\* least, the first of them with more description lines than are kept
C23_Witness ==
    /\ Returned
    /\ Len(Profile.work_history) >= 2
    /\ \E i \in 1..(NthOf(HeaderLines(SectionLines(Done.text)), 1) - 1) :
          DescribedBy(SectionLines(Done.text)[i]) # <<>>
    /\ \E k \in 1..Len(Profile.work_history) :
          /\ "description" \in DOMAIN Profile.work_history[k]
          /\ Len(DescriptionsIn(SectionLines(Done.text),
                                NthOf(HeaderLines(SectionLines(Done.text)), k),
                                EndOf(HeaderLines(SectionLines(Done.text)), k,
                                      Len(SectionLines(Done.text))))) > MaxDescriptionLines

\* the fields entry e has from its header line
HeaderOf(e) == [title |-> e.title, company |-> e.company, dates |-> e.dates]

FirstHeadersInOrder(work_history, L, H) ==
    /\ Len(work_history) =
          (IF Cardinality(H) < MaxWorkHistory THEN Cardinality(H) ELSE MaxWorkHistory)
    /\ \A k \in 1..Len(work_history) :
          HeaderOf(work_history[k]) = Val(JobByPatterns(L[NthOf(H, k)], 1))

\* C24: the entries stand in the order in which their header lines stand in
\* the text, and of more than five header lines the entries are those of
\* the first five: the k-th entry is the one of the k-th header line.
C24_FirstFiveInTextOrder ==
    Returned =>
        FirstHeadersInOrder(Profile.work_history, SectionLines(Done.text),
                            HeaderLines(SectionLines(Done.text)))

\* a section of more than five header lines has been parsed
C24_Witness ==
    /\ Returned
    /\ Cardinality(HeaderLines(SectionLines(Done.text))) > MaxWorkHistory
    /\ Len(Profile.work_history) = MaxWorkHistory

\* the text has one of the explicit phrases of experience
HasExplicitPhrase(text) ==
    \E k \in 1..Len(exp_patterns) : Search(exp_patterns[k], text, TRUE).ok

\* the years the text mentions, as numbers
YearsMentioned(text) ==
    { ParseInt(y, 0) : y \in Range(FindAll(year_pattern, text, FALSE, 1)) }

Smallest(S) == CHOOSE x \in S : \A y \in S : x <= y
Largest(S) == CHOOSE x \in S : \A y \in S : x >= y

\* end - start, with end = min(max(years), current_year), start = min(years)
SpanOf(S, current_year) ==
    (IF Largest(S) < current_year THEN Largest(S) ELSE current_year) - Smallest(S)

\* experience by the span of the years S alone
ExperienceBySpan(S, current_year) ==
    IF S # {} /\ 0 < SpanOf(S, current_year) /\ SpanOf(S, current_year) <= MaxExperienceYears
    THEN Some(YearsText(SpanOf(S, current_year)))
    ELSE None

\* C25: an explicit phrase of experience always wins over the years
\* mentioned; only a text without such a phrase is given the span
\* end - start of its years, end = min(max(years), current_year) and
\* start = min(years), as "<end - start>+ years" when 0 < end - start <= 50,
\* and no experience otherwise.
C25_PhraseBeforeSpan ==
    Returned /\ ~IsBlank(Done.text) =>
        IF HasExplicitPhrase(Done.text)
        THEN Profile.experience = ExperienceByPatterns(Done.text, 1) /\ IsSome(Profile.experience)
        ELSE Profile.experience = ExperienceBySpan(YearsMentioned(Done.text), Asked.year)

\* a text with an explicit phrase and with years whose span is another number
C25_Witness ==
    /\ Returned
    /\ HasExplicitPhrase(Done.text)
    /\ IsSome(ExperienceBySpan(YearsMentioned(Done.text), Asked.year))
    /\ Profile.experience # ExperienceBySpan(YearsMentioned(Done.text), Asked.year)

(***************************************************************************)
(* Names (SpecNames)                                                       *)
(***************************************************************************)
\* the line contains one of the boilerplate words
HasBoilerplate(line) ==
    \E k \in 1..Len(skip_words) : Contains(StrLower(line), skip_words[k])

\* the line can supply the name: it has the length of a name, no boilerplate
\* word, and a pattern finds in it a name that passes the checks
Qualifies(line) ==
    /\ Len(Strip(line)) >= NameMinLen
    /\ Len(Strip(line)) <= NameMaxLen
    /\ ~HasBoilerplate(line)
    /\ IsSome(NameByPatterns(Strip(line), 1))

\* the positions, among the first ten, of the lines that can supply the name
QualifyingLines(L) == { i \in 1..Len(L) : i <= NameScanLines /\ Qualifies(L[i]) }

NameIsOfEarliest(name, L, found) ==
    IF found = {} THEN name = None
    ELSE name = NameByPatterns(Strip(L[Smallest(found)]), 1)

\* C26: the name is the match of the earliest line, among the first ten
\* lines of the text, that qualifies; a line with a boilerplate word
\* (resume, cv, curriculum, vitae, professional, summary, objective) does
\* not qualify, and no line from the eleventh on supplies the name.
C26_NameIsOfEarliestLine ==
    Returned /\ ~IsBlank(Done.text) =>
        NameIsOfEarliest(Profile.name, Lines(Done.text), QualifyingLines(Lines(Done.text)))

\* the eleventh line has the shape of a name, none of the first ten has, and
\* no name is returned
C26_Witness ==
    /\ Returned
    /\ Len(Lines(Done.text)) > NameScanLines
    /\ Qualifies(Lines(Done.text)[NameScanLines + 1])
    /\ QualifyingLines(Lines(Done.text)) = {}
    /\ Profile.name = None

\* the line is a first name, a middle initial with or without a dot, and a
\* last name
HasMiddleInitial(line) == Search(name_patterns[3], Strip(line), FALSE).ok

\* C27: a line of the shape First M. Last or First M Last among the first
\* ten lines, free of boilerplate words and with no qualifying line before
\* it, is returned as the name.
C27_MiddleInitialIsAccepted ==
    Returned =>
        \A i \in 1..Len(Lines(Done.text)) :
            /\ i <= NameScanLines
            /\ HasMiddleInitial(Lines(Done.text)[i])
            /\ ~HasBoilerplate(Lines(Done.text)[i])
            /\ \A j \in 1..(i - 1) : ~Qualifies(Lines(Done.text)[j])
            => Profile.name = Some(Strip(Lines(Done.text)[i]))

\* the taxonomy entries that an entity typed organisation or product equals,
\* whatever the case
EntityEntries(ents) ==
    { all_skills[k] : k \in { j \in 1..Len(all_skills) :
          \E e \in ents : /\ e.label_ \in {"ORG", "PRODUCT"}
                          /\ StrLower(e.text) = StrLower(all_skills[j]) } }

\* the skills found without a model
RegexOnlySkills(text) == DirectSkills(text) \cup SectionSkills(text)

SkillsAreUnion(skills, regex_only, annot) ==
    /\ regex_only \subseteq skills
    /\ nlp = "None" \/ ~SPACY_AVAILABLE \/ annot.raises => skills = regex_only
    /\ nlp = "model" /\ SPACY_AVAILABLE /\ ~annot.raises =>
          skills = regex_only \cup EntityEntries(annot.ents)

\* C28: the skills are the union of the matches in the whole text, of the
\* matches in the skills section and, with a model, of the taxonomy entries
\* an organisation or product entity equals: with the model the skills
\* include those found without it, and when the model raises they are
\* exactly those found without it, and the call returns.
C28_SkillsAreUnion ==
    Returned /\ ~IsBlank(Done.text) =>
        /\ Done.outcome = "returned"
        /\ SkillsAreUnion(Profile.skills, RegexOnlySkills(Done.text), Asked.annot)

\* the model has added a skill to those the text alone gives
C28_Witness ==
    /\ Returned
    /\ nlp = "model"
    /\ ~Asked.annot.raises
    /\ RegexOnlySkills(Done.text) # {}
    /\ Profile.skills # RegexOnlySkills(Done.text)

(***************************************************************************)
(* The overall score (Spec)                                                *)
(***************************************************************************)
\* the least and the greatest sum of the six scores of a parsed profile, in
\* hundredths: 0.1 + 0 + 0 + 0.1 + 0.3 + 0.2 and 0.9 + 0.95 + 0.85 + 0.9 + 0.8 + 0.8
LeastTotal == 10 + 0 + 0 + 10 + 30 + 20
GreatestTotal == 90 + 95 + 85 + 90 + 80 + 80

\* overall lies between LeastTotal / 6 and GreatestTotal / 6
OverallInRange(overall) ==
    /\ overall.num > 0
    /\ overall.num * Cardinality(ScoreFields) >= LeastTotal * overall.den
    /\ overall.num * Cardinality(ScoreFields) <= GreatestTotal * overall.den

IsBulleted(line) == StartsWith(line, "-") \/ StartsWith(line, "*")

\* the positions of the header lines of L that carry no bullet mark
GenuineHeaderLines(L) == { i \in HeaderLines(L) : ~IsBulleted(L[i]) }

BulletsOpenNothing(work_history, L) ==
    /\ Len(work_history) =
          (IF Cardinality(GenuineHeaderLines(L)) < MaxWorkHistory
           THEN Cardinality(GenuineHeaderLines(L)) ELSE MaxWorkHistory)
    /\ \A k \in 1..Len(work_history) : ~IsBulleted(work_history[k].title)

\* C30: a bullet-marked line of the experience section starts no entry,
\* whatever punctuation it holds: no entry has its title from a bullet-marked
\* line, and the entries are as many as the header lines without a bullet
\* mark, five at most.
C30_BulletsNeverStartEntries ==
    Returned => BulletsOpenNothing(Profile.work_history, SectionLines(Done.text))

====
